---- MODULE Spec2Model ----
(***************************************************************************)
(* DynamicTerrain: the terrain actor (ATerrain), its height map, the       *)
(* parallel mesh rebuild (RebuildMesh with ComponentBuilder workers) and   *)
(* the asynchronous collision cooking queue of UTerrainComponent.          *)
(*                                                                         *)
(* Conventions of the model                                                *)
(*  - C++ arrays are 0-based, TLA+ sequences 1-based: element i of an      *)
(*    array is element i+1 of the sequence that models it.                 *)
(*  - Heights, tiling and mesh coordinates are floats in the code; the     *)
(*    model uses integers.  World positions carry a factor 1/2 in the code *)
(*    ((WidthX - 3) / 2.0f), so the model stores twice the X and Y         *)
(*    position of a vertex.                                                *)
(*  - Normals are the cross product of the two normalised tangents in the  *)
(*    code; the model stores the two tangents before normalisation and     *)
(*    their cross product (same direction, length not normalised).         *)
(*  - hm, call and gen hold a UHeightMap used on its own and the buffers    *)
(*    of the mesh generators, for the properties of single calls; the      *)
(*    terrain actor's own state is in the other variables.                 *)
(*  - Unreal's axes are left-handed: X forward, Y right, Z up.             *)
(***************************************************************************)
EXTENDS Integers, Sequences, FiniteSets, TLC

(***************************************************************************)
(* Bounds of the model                                                     *)
(***************************************************************************)
MaxSections == 5
MaxLifeSections == 2
MaxComponentSize == 2
MaxHeightValue == 1
MaxEditCoord == 1
MaxEdits == 1
MaxMarks == 2
MaxRangeCoord == 1
MaxRequests == 3
MaxMapWidth == 3
MaxMapCells == 4
MaxNoise == 1
MaxScale == 1
MaxReadSize == 4
MaxReadWidth == 3
MaxReadSection == 2
MaxProxySize == 3
MaxProxyOffset == 2
MaxTiling == 3
MaxPlaySize == 2
MaxPlayWidth == 2
MaxMeshWidth == 5
MaxMapScale == 2
MaxFlatSize == 5
MaxRangeGrid == 2
MaxRangeSize == 3

(***************************************************************************)
(* Program constants                                                       *)
(***************************************************************************)
DefaultComponentSize == 64
ProxyComponentSize == 6
DefaultWidth == 1
DefaultWorkerThreads == 4
PoolLimit == 4
SkirtBottom == -200
U16 == 65536

ToU16(v) == v % U16

Min(a, b) == IF a < b THEN a ELSE b

(***************************************************************************)
(* UHeightMap                                                              *)
(***************************************************************************)
EmptyMap == [WidthX |-> 0, WidthY |-> 0, MaxHeight |-> 0, MapData |-> << >>]

\* TArray::SetNumZeroed(n): elements below the old length are kept, the
\* array is cut to n when it shrinks and padded with zeroes when it grows.
SetNumZeroed_noshrink(arr, n) ==
    IF n < Len(arr) THEN arr ELSE [i \in 1..n |-> IF i <= Len(arr) THEN arr[i] ELSE 0]

SetNumZeroed(arr, n) == [i \in 1..n |-> IF i <= Len(arr) THEN arr[i] ELSE 0]

HeightMapResize_noguard(map, X, Y, Z) ==
    IF Z <= 0
    THEN map
    ELSE [WidthX |-> X, WidthY |-> Y, MaxHeight |-> Z,
          MapData |-> SetNumZeroed(map.MapData, X * Y)]

HeightMapResize(map, X, Y, Z) ==
    IF X <= 0 \/ Y <= 0 \/ Z <= 0
    THEN map
    ELSE [WidthX |-> X, WidthY |-> Y, MaxHeight |-> Z,
          MapData |-> SetNumZeroed(map.MapData, X * Y)]

InMapData(map, X, Y) == Y * map.WidthX + X + 1 \in 1..Len(map.MapData)

GetHeight(map, X, Y) == map.MapData[Y * map.WidthX + X + 1]

SetHeightMap_rowFirst(map, X, Y, Height) ==
    [map EXCEPT !.MapData[X * map.WidthY + Y + 1] = Height]

SetHeightMap(map, X, Y, Height) ==
    [map EXCEPT !.MapData[Y * map.WidthX + X + 1] = Height]

(***************************************************************************)
(* ComponentData and the section generator                                 *)
(***************************************************************************)
EmptyData == [Vertices |-> << >>, UV0 |-> << >>, Normals |-> << >>,
              Tangents |-> << >>, Triangles |-> << >>]

Allocate_perVertex(Size) ==
    [Vertices  |-> [i \in 1..(Size * Size) |-> <<0, 0, 0>>],
     UV0       |-> [i \in 1..(Size * Size) |-> <<0, 0>>],
     Normals   |-> [i \in 1..(Size * Size) |-> <<0, 0, 0>>],
     Tangents  |-> [i \in 1..(Size * Size) |-> <<0, 0, 0>>],
     Triangles |-> [i \in 1..(Size * Size * 6) |-> 0]]

Allocate(Size) ==
    [Vertices  |-> [i \in 1..(Size * Size) |-> <<0, 0, 0>>],
     UV0       |-> [i \in 1..(Size * Size) |-> <<0, 0>>],
     Normals   |-> [i \in 1..(Size * Size) |-> <<0, 0, 0>>],
     Tangents  |-> [i \in 1..(Size * Size) |-> <<0, 0, 0>>],
     Triangles |-> [i \in 1..((Size - 1) * (Size - 1) * 6) |-> 0]]

CrossProduct_reversed(a, b) ==
    << b[2] * a[3] - b[3] * a[2],
       b[3] * a[1] - b[1] * a[3],
       b[1] * a[2] - b[2] * a[1] >>

CrossProduct(a, b) ==
    << a[2] * b[3] - a[3] * b[2],
       a[3] * b[1] - a[1] * b[3],
       a[1] * b[2] - a[2] * b[1] >>

\* The two tangents of the vertex at height-map cell (mx, my), before
\* normalisation.
TangentX(map, mx, my) ==
    <<2, 0, GetHeight(map, mx + 1, my) - GetHeight(map, mx - 1, my)>>

TangentY_forward(map, mx, my) ==
    <<0, 2, GetHeight(map, mx, my + 1) - GetHeight(map, mx, my - 1)>>

TangentY(map, mx, my) ==
    <<0, 2, GetHeight(map, mx, my - 1) - GetHeight(map, mx, my + 1)>>

SectionVertex_strided(map, Size, X, Y, i) ==
    LET x == i % Size
        y == i \div Size
    IN  << 2 * x - ((map.WidthX - 3) - 2 * Size * X),
           ((map.WidthY - 3) - 2 * Size * Y) - 2 * y,
           GetHeight(map, X * (Size - 1) + x + 1, Y * (Size - 1) + y + 1) >>

\* Vertex i (0-based, i = y * Size + x) of section (X, Y).
SectionVertex(map, Size, X, Y, i) ==
    LET x == i % Size
        y == i \div Size
        polygons == Size - 1
    IN  << 2 * x - ((map.WidthX - 3) - 2 * polygons * X),
           ((map.WidthY - 3) - 2 * polygons * Y) - 2 * y,
           GetHeight(map, X * polygons + x + 1, Y * polygons + y + 1) >>

SectionUV(Size, tiling, X, Y, i) ==
    LET x == i % Size
        y == i \div Size
        polygons == Size - 1
    IN  << (x + X * polygons) * tiling, (y + Y * polygons) * tiling >>

SectionNormal(map, Size, X, Y, i) ==
    LET mx == X * (Size - 1) + (i % Size) + 1
        my == Y * (Size - 1) + (i \div Size) + 1
    IN  CrossProduct(TangentX(map, mx, my), TangentY(map, mx, my))

SectionTangent(map, Size, X, Y, i) ==
    TangentX(map, X * (Size - 1) + (i % Size) + 1, Y * (Size - 1) + (i \div Size) + 1)

\* Entry k (0-based) of the index buffer of a section of vertex width Size.
SectionTriangle_mirrored(Size, k) ==
    LET polygons == Size - 1
        q == k \div 6
        x == q % polygons
        y == q \div polygons
        c == k % 6
    IN  CASE c = 0 -> x + (y * Size)
          [] c = 1 -> 1 + x + (y + 1) * Size
          [] c = 2 -> 1 + x + y * Size
          [] c = 3 -> x + (y * Size)
          [] c = 4 -> 1 + x + (y + 1) * Size
          [] OTHER -> x + (y + 1) * Size

SectionTriangle(Size, k) ==
    LET polygons == Size - 1
        q == k \div 6
        x == q % polygons
        y == q \div polygons
        c == k % 6
    IN  CASE c = 0 -> x + (y * Size)
          [] c = 1 -> 1 + x + y * Size
          [] c = 2 -> 1 + x + (y + 1) * Size
          [] c = 3 -> x + (y * Size)
          [] c = 4 -> 1 + x + (y + 1) * Size
          [] OTHER -> x + (y + 1) * Size

GenerateMeshSection_clear(map, Size, tiling, X, Y, Data, CreateTriangles) ==
    [Vertices  |-> [i \in 1..(Size * Size) |-> SectionVertex(map, Size, X, Y, i - 1)],
     UV0       |-> [i \in 1..(Size * Size) |-> SectionUV(Size, tiling, X, Y, i - 1)],
     Normals   |-> [i \in 1..(Size * Size) |-> SectionNormal(map, Size, X, Y, i - 1)],
     Tangents  |-> [i \in 1..(Size * Size) |-> SectionTangent(map, Size, X, Y, i - 1)],
     Triangles |-> IF CreateTriangles
                   THEN [k \in 1..((Size - 1) * (Size - 1) * 6) |-> SectionTriangle(Size, k - 1)]
                   ELSE [k \in 1..Len(Data.Triangles) |-> 0]]

GenerateMeshSection(map, Size, tiling, X, Y, Data, CreateTriangles) ==
    [Vertices  |-> [i \in 1..(Size * Size) |-> SectionVertex(map, Size, X, Y, i - 1)],
     UV0       |-> [i \in 1..(Size * Size) |-> SectionUV(Size, tiling, X, Y, i - 1)],
     Normals   |-> [i \in 1..(Size * Size) |-> SectionNormal(map, Size, X, Y, i - 1)],
     Tangents  |-> [i \in 1..(Size * Size) |-> SectionTangent(map, Size, X, Y, i - 1)],
     Triangles |-> IF CreateTriangles
                   THEN [k \in 1..((Size - 1) * (Size - 1) * 6) |-> SectionTriangle(Size, k - 1)]
                   ELSE Data.Triangles]

(***************************************************************************)
(* The border (skirt) generator.  Sides in the order the code emits them:  *)
(* 1 = -X, 2 = +X, 3 = +Y, 4 = -Y.                                         *)
(***************************************************************************)
BorderEdgeLength(map, side) ==
    IF side \in {1, 2} THEN map.WidthY - 2 ELSE map.WidthX - 2

\* Height read for entry j (0-based) of a side.
BorderHeight(map, side, j) ==
    CASE side = 1 -> GetHeight(map, 1, j + 1)
      [] side = 2 -> GetHeight(map, map.WidthX - 2, j + 1)
      [] side = 3 -> GetHeight(map, j + 1, 1)
      [] OTHER    -> GetHeight(map, j + 1, map.WidthY - 2)

\* Vertex k (0-based) of a side: even k is the bottom of the skirt, odd k
\* the top at terrain height.
BorderVertex(map, side, k) ==
    LET j == k \div 2
        z == IF k % 2 = 0 THEN SkirtBottom ELSE BorderHeight(map, side, j)
        world_x == (map.WidthX - 2) - 1
        world_y == (map.WidthY - 2) - 1
    IN  CASE side = 1 -> << -world_x, world_y - 2 * j, z >>
          [] side = 2 -> << world_x, world_y - 2 * j, z >>
          [] side = 3 -> << -world_x + 2 * j, world_y, z >>
          [] OTHER    -> << -world_x + 2 * j, -world_y, z >>

BorderUV(map, side, k) ==
    LET j == k \div 2
        z == IF k % 2 = 0 THEN SkirtBottom ELSE BorderHeight(map, side, j)
    IN  IF side \in {1, 2} THEN <<z, j>> ELSE <<j, z>>

BorderNormal(side) ==
    CASE side = 1 -> <<-1, 0, 0>>
      [] side = 2 -> <<1, 0, 0>>
      [] side = 3 -> <<0, 1, 0>>
      [] OTHER    -> <<0, -1, 0>>

BorderTangent(side) == IF side \in {1, 2} THEN <<0, 0, 1>> ELSE <<1, 0, 0>>

\* Entry k (0-based) of the index list of a side whose first vertex is at
\* position size of the vertex buffer.
BorderTriangle(side, size, k) ==
    LET j == k \div 6
        c == k % 6
    IN  IF side \in {1, 4}
        THEN CASE c = 0 -> size + j * 2
               [] c = 1 -> size + 1 + j * 2
               [] c = 2 -> size + 1 + (j + 1) * 2
               [] c = 3 -> size + j * 2
               [] c = 4 -> size + 1 + (j + 1) * 2
               [] OTHER -> size + (j + 1) * 2
        ELSE CASE c = 0 -> size + 1 + (j + 1) * 2
               [] c = 1 -> size + 1 + j * 2
               [] c = 2 -> size + j * 2
               [] c = 3 -> size + (j + 1) * 2
               [] c = 4 -> size + 1 + (j + 1) * 2
               [] OTHER -> size + j * 2

NatOrZero(v) == IF v > 0 THEN v ELSE 0

BorderSideStart_first(map, side) == 0

\* Position of the first vertex of a side in the border's vertex buffer.
BorderSideStart(map, side) ==
    CASE side = 1 -> 0
      [] side = 2 -> ToU16(2 * NatOrZero(map.WidthY - 2))
      [] side = 3 -> ToU16(4 * NatOrZero(map.WidthY - 2))
      [] OTHER    -> ToU16(4 * NatOrZero(map.WidthY - 2) + 2 * NatOrZero(map.WidthX - 2))

BorderSideVertices(map, side) ==
    [k \in 1..(2 * NatOrZero(BorderEdgeLength(map, side))) |-> BorderVertex(map, side, k - 1)]

BorderSideUVs(map, side) ==
    [k \in 1..(2 * NatOrZero(BorderEdgeLength(map, side))) |-> BorderUV(map, side, k - 1)]

BorderSideNormals(map, side) ==
    [k \in 1..(2 * NatOrZero(BorderEdgeLength(map, side))) |-> BorderNormal(side)]

BorderSideTangents(map, side) ==
    [k \in 1..(2 * NatOrZero(BorderEdgeLength(map, side))) |-> BorderTangent(side)]

BorderSideTriangles(map, side) ==
    [k \in 1..(6 * NatOrZero(BorderEdgeLength(map, side) - 1)) |->
        BorderTriangle(side, BorderSideStart(map, side), k - 1)]

GenerateBorderSection(map, Data, CreateTriangles) ==
    [Vertices  |-> Data.Vertices \o BorderSideVertices(map, 1) \o BorderSideVertices(map, 2)
                     \o BorderSideVertices(map, 3) \o BorderSideVertices(map, 4),
     UV0       |-> Data.UV0 \o BorderSideUVs(map, 1) \o BorderSideUVs(map, 2)
                     \o BorderSideUVs(map, 3) \o BorderSideUVs(map, 4),
     Normals   |-> Data.Normals \o BorderSideNormals(map, 1) \o BorderSideNormals(map, 2)
                     \o BorderSideNormals(map, 3) \o BorderSideNormals(map, 4),
     Tangents  |-> Data.Tangents \o BorderSideTangents(map, 1) \o BorderSideTangents(map, 2)
                     \o BorderSideTangents(map, 3) \o BorderSideTangents(map, 4),
     Triangles |-> IF CreateTriangles
                   THEN Data.Triangles \o BorderSideTriangles(map, 1) \o BorderSideTriangles(map, 2)
                          \o BorderSideTriangles(map, 3) \o BorderSideTriangles(map, 4)
                   ELSE Data.Triangles]

(***************************************************************************)
(* State                                                                   *)
(***************************************************************************)
VARIABLES
    ComponentSize,      \* ATerrain::ComponentSize
    XWidth,             \* ATerrain::XWidth
    YWidth,             \* ATerrain::YWidth
    Tiling,             \* ATerrain::Tiling
    Border,             \* ATerrain::Border
    WorkerThreads,      \* ATerrain::WorkerThreads
    DirtyMesh,          \* ATerrain::DirtyMesh
    Map,                \* ATerrain::Map (the UHeightMap)
    Meshes,             \* ATerrain::Meshes, one record per mesh component
    UpdateMesh,         \* ATerrain::UpdateMesh
    ComponentBuffer,    \* ATerrain::ComponentBuffer
    pc,                 \* where the game thread is: "idle" or inside RebuildMesh ("poll")
    num_threads_limit,  \* the pool limit RebuildMesh starts from
    builders,           \* RebuildMesh: the local array of ComponentBuilder
    section_x,          \* RebuildMesh: the section cursor
    section_y,
    poll_i,             \* RebuildMesh: index of the polling for-loop
    assigned,           \* history: section (x, y) -> times handed to a worker in this run
    delivered,          \* history: mesh slot -> results delivered to it in this run
    writes,             \* history: the mesh writes made by the latest step
    editsLeft,          \* SetHeight calls the model still explores
    BodySetup,          \* UTerrainComponent::BodySetup (0 = nullptr)
    BodySetupQueue,     \* UTerrainComponent::BodySetupQueue
    AsyncCooking,       \* UTerrainComponent::AsyncCooking
    cooking,            \* body setups whose asynchronous cook has not called back yet
    cookedAt,           \* body setup -> number of the collision request it was last cooked for
    nextBody,           \* next UBodySetup object to be created
    requests,           \* collision requests (UpdateCollision calls) made so far
    newestSuccess,      \* history: the newest request whose cook completed successfully
    lastFinish,         \* history: the latest FinishCollision call, <<body, Success, location>>
    hm,                 \* a UHeightMap used on its own
    call,               \* the latest call made on hm, with its result
    gen                \* the buffers the latest mesh generator call has written

terrainVars == <<ComponentSize, XWidth, YWidth, Tiling, Border, WorkerThreads, DirtyMesh,
                 Map, Meshes, UpdateMesh, ComponentBuffer, pc, num_threads_limit, builders,
                 section_x, section_y, poll_i, assigned, delivered, writes, editsLeft>>

cookVars == <<BodySetup, BodySetupQueue, AsyncCooking, cooking, cookedAt, nextBody,
              requests, newestSuccess, lastFinish>>

probeVars == <<hm, call, gen>>

vars == <<terrainVars, cookVars, probeVars>>

(***************************************************************************)
(* Mesh components (UProceduralMeshComponent, section 0)                   *)
(***************************************************************************)
NewMesh == [lastOp |-> "none", geometry |-> "none", Vertices |-> << >>, UV0 |-> << >>,
            Normals |-> << >>, Tangents |-> << >>, Triangles |-> << >>]

CreateMeshSection(mesh, data, geometry) ==
    [lastOp |-> "create", geometry |-> geometry, Vertices |-> data.Vertices,
     UV0 |-> data.UV0, Normals |-> data.Normals, Tangents |-> data.Tangents,
     Triangles |-> data.Triangles]

UpdateMeshSection(mesh, data, geometry) ==
    [mesh EXCEPT !.lastOp = "update", !.geometry = geometry, !.Vertices = data.Vertices,
                 !.UV0 = data.UV0, !.Normals = data.Normals, !.Tangents = data.Tangents]

MeshOp_update(dirty) == "update"

\* The call RebuildMesh makes on a mesh component: create when the mesh is
\* dirty, update otherwise.
MeshOp(dirty) == IF dirty THEN "create" ELSE "update"

ApplyMeshOp(op, mesh, data, geometry) ==
    IF op = "create"
    THEN CreateMeshSection(mesh, data, geometry)
    ELSE UpdateMeshSection(mesh, data, geometry)

\* History counters: 1 = once, 2 = more than once.
Bump(count, key) ==
    IF key \in DOMAIN count
    THEN [count EXCEPT ![key] = IF @ < 2 THEN @ + 1 ELSE @]
    ELSE count @@ (key :> 1)

RemoveAt_last(seq, i) == [k \in 1..(Len(seq) - 1) |-> seq[k]]

\* TArray::RemoveAt, with i the 1-based position.
RemoveAt(seq, i) == [k \in 1..(Len(seq) - 1) |-> IF k < i THEN seq[k] ELSE seq[k + 1]]

(***************************************************************************)
(* ComponentBuilder (the worker) and the section view it builds from       *)
(***************************************************************************)
\* A section view: the window of size x size cells of a height map that
\* starts at (originX, originY), copied.  The copy keeps the coordinates of
\* the height map; the cells outside the window are not part of it (0).
EmptyView == [originX |-> 0, originY |-> 0, size |-> 0, WidthX |-> 0, WidthY |-> 0,
              MapData |-> << >>]

InWindow(X, Y, originX, originY, size) ==
    /\ X - originX \in 0..(size - 1)
    /\ Y - originY \in 0..(size - 1)

ExtractSection(map, originX, originY, size) ==
    [originX |-> originX, originY |-> originY, size |-> size,
     WidthX |-> map.WidthX, WidthY |-> map.WidthY,
     MapData |-> [k \in 1..Len(map.MapData) |->
                    IF InWindow((k - 1) % map.WidthX, (k - 1) \div map.WidthX,
                                originX, originY, size)
                    THEN map.MapData[k]
                    ELSE 0]]

\* The window of section (x, y): its vertices and one halo cell on every side.
SectionWindow(map, size, x, y) ==
    ExtractSection(map, x * (size - 1), y * (size - 1), size + 2)

NewBuilder(id) ==
    [id |-> id, component_x |-> 0, component_y |-> 0, idle |-> TRUE, data |-> << >>,
     view |-> EmptyView]

\* Build(x, y) on a builder of a terrain with height map map and component
\* width size: the view is taken when the section is given out.
Build(b, map, size, x, y) ==
    [b EXCEPT !.component_x = x, !.component_y = y, !.idle = FALSE, !.data = << >>,
              !.view = SectionWindow(map, size, x, y)]

IsIdle(b) == b.idle

\* << >> stands for nullptr, <<d>> for a pointer to the finished data d.
GetData(b) == b.data

GetSection(b, xw) == b.component_y * xw + b.component_x

\* The worker thread finishes the section it was given, from its view.
BuilderRun(b, size, tiling) ==
    [b EXCEPT !.idle = TRUE,
              !.data = << GenerateMeshSection(b.view, size, tiling, b.component_x,
                                              b.component_y, Allocate(size), TRUE) >>]

(***************************************************************************)
(* ATerrain::RebuildHeightmap                                              *)
(***************************************************************************)
RebuildHeightmap(map, size, xw, yw) ==
    LET heightmap_x == ToU16((size - 1) * xw + 3)
        heightmap_y == ToU16((size - 1) * yw + 3)
    IN  IF heightmap_x * heightmap_y = 0
        THEN map
        ELSE HeightMapResize(map, heightmap_x, heightmap_y, 1)

(***************************************************************************)
(* ATerrain::RebuildMesh                                                   *)
(***************************************************************************)
ComponentCount(xw, yw, border) ==
    IF border THEN ToU16(ToU16(xw * yw) + 1) ELSE ToU16(xw * yw)

NumThreads(limit, xw, yw) ==
    IF xw * yw < limit THEN ToU16(xw * yw) ELSE limit

NextSection_norow(sx, sy, xw) ==
    IF ToU16(sx + 1) >= xw THEN <<0, sy>> ELSE <<ToU16(sx + 1), sy>>

NextSection_stay(sx, sy, xw) ==
    IF ToU16(sx + 1) >= xw THEN <<0, ToU16(sy + 1)>> ELSE <<sx, sy>>

\* "Switch to the next section": the cursor after one advance.
NextSection(sx, sy, xw) ==
    IF ToU16(sx + 1) >= xw THEN <<0, ToU16(sy + 1)>> ELSE <<ToU16(sx + 1), sy>>

StartSection_row(i, xw) == <<i % xw, 0>>

\* The cursor when worker i of the initial pool is started.
RECURSIVE StartSection(_, _)
StartSection(i, xw) ==
    IF i = 0 THEN <<0, 0>>
    ELSE LET prev == StartSection(i - 1, xw) IN NextSection(prev[1], prev[2], xw)

SectionSlot_index(b, i, xw) == i

\* The mesh slot the result of builders[i] goes to.
SectionSlot(b, i, xw) == GetSection(b, xw)

\* "if (section_y < YWidth)": sections are left to give out.
MoreSections(sy, yw) == sy < yw

\* The first part of RebuildMesh, up to the start of the workers.
RebuildMeshBegin(size, xw, yw, border, dirty, map) ==
    LET count == ComponentCount(xw, yw, border)
        n == NumThreads(num_threads_limit, xw, yw)
        last == StartSection(n - 1, xw)
    IN  /\ Meshes' = IF dirty THEN [k \in 1..count |-> NewMesh] ELSE Meshes
        /\ UpdateMesh' = IF dirty THEN [k \in 1..count |-> FALSE] ELSE UpdateMesh
        /\ ComponentBuffer' = IF dirty THEN Allocate(size) ELSE ComponentBuffer
        /\ builders' = [k \in 1..n |->
                          Build(NewBuilder(k - 1), map, size, StartSection(k - 1, xw)[1],
                                StartSection(k - 1, xw)[2])]
        /\ section_x' = IF n = 0 THEN 0 ELSE last[1]
        /\ section_y' = IF n = 0 THEN 0 ELSE last[2]
        /\ assigned' = [c \in {StartSection(k, xw) : k \in 0..(n - 1)} |->
                          Cardinality({k \in 0..(n - 1) : StartSection(k, xw) = c})]
        /\ delivered' = << >>
        /\ writes' = << >>
        /\ poll_i' = 0
        /\ pc' = "poll"

\* The sizes the model explores: a rebuild of a larger terrain is not run.
Explored == ComponentSize <= MaxComponentSize

Resize(SizeOfComponents, ComponentWidthX, ComponentWidthY) ==
    /\ pc = "idle"
    /\ IF SizeOfComponents <= 1 \/ ComponentWidthX < 1 \/ ComponentWidthY < 1
       THEN UNCHANGED terrainVars
       ELSE /\ ComponentSize' = SizeOfComponents
            /\ XWidth' = ComponentWidthX
            /\ YWidth' = ComponentWidthY
            /\ DirtyMesh' = TRUE
            /\ Map' = RebuildHeightmap(Map, SizeOfComponents, ComponentWidthX, ComponentWidthY)
            /\ RebuildMeshBegin(SizeOfComponents, ComponentWidthX, ComponentWidthY, Border,
                                TRUE, Map')
            /\ UNCHANGED <<Tiling, Border, WorkerThreads, num_threads_limit, editsLeft>>
    /\ UNCHANGED <<cookVars, probeVars>>

Rebuild ==
    /\ pc = "idle"
    /\ Explored
    /\ DirtyMesh' = TRUE
    /\ Map' = RebuildHeightmap(Map, ComponentSize, XWidth, YWidth)
    /\ RebuildMeshBegin(ComponentSize, XWidth, YWidth, Border, TRUE, Map')
    /\ UNCHANGED <<ComponentSize, XWidth, YWidth, Tiling, Border, WorkerThreads,
                   num_threads_limit, editsLeft>>
    /\ UNCHANGED <<cookVars, probeVars>>

Refresh ==
    /\ pc = "idle"
    /\ Explored
    /\ RebuildMeshBegin(ComponentSize, XWidth, YWidth, Border, DirtyMesh, Map)
    /\ UNCHANGED <<ComponentSize, XWidth, YWidth, Tiling, Border, WorkerThreads, DirtyMesh,
                   Map, num_threads_limit, editsLeft>>
    /\ UNCHANGED <<cookVars, probeVars>>

EnableBorder(Enable) ==
    /\ pc = "idle"
    /\ Border' = Enable
    /\ writes' = << >>
    /\ UNCHANGED <<ComponentSize, XWidth, YWidth, Tiling, WorkerThreads, DirtyMesh, Map,
                   Meshes, UpdateMesh, ComponentBuffer, pc, num_threads_limit, builders,
                   section_x, section_y, poll_i, assigned, delivered, editsLeft>>
    /\ UNCHANGED <<cookVars, probeVars>>

\* The editor sets the WorkerThreads property (EditAnywhere); the property
\* change handler does nothing for it.
EditWorkerThreads(n) ==
    /\ pc = "idle"
    /\ WorkerThreads' = n
    /\ writes' = << >>
    /\ UNCHANGED <<ComponentSize, XWidth, YWidth, Tiling, Border, DirtyMesh, Map,
                   Meshes, UpdateMesh, ComponentBuffer, pc, num_threads_limit, builders,
                   section_x, section_y, poll_i, assigned, delivered, editsLeft>>
    /\ UNCHANGED <<cookVars, probeVars>>

\* A worker thread finishes its section.
WorkerRun(i) ==
    /\ pc = "poll"
    /\ i \in 1..Len(builders)
    /\ ~builders[i].idle
    /\ writes' = << >>
    /\ UNCHANGED <<ComponentSize, XWidth, YWidth, Tiling, Border, WorkerThreads, DirtyMesh,
                   Map, Meshes, UpdateMesh, ComponentBuffer, pc, num_threads_limit,
                   section_x, section_y, poll_i, assigned, delivered, editsLeft>>
    /\ UNCHANGED <<cookVars, probeVars>>
    /\ builders' = [builders EXCEPT ![i] = BuilderRun(@, ComponentSize, Tiling)]

\* One pass of the body of the polling for-loop, for builders[poll_i].
PollBuilder ==
    /\ pc = "poll"
    /\ poll_i < Len(builders)
    /\ LET b == builders[poll_i + 1]
           wrap(i) == IF i >= Len(builders) THEN 0 ELSE i
       IN  IF IsIdle(b) /\ GetData(b) # << >>
           THEN LET section == SectionSlot(b, poll_i, XWidth)
                    data == GetData(b)[1]
                    op == MeshOp(DirtyMesh)
                    next == NextSection(section_x, section_y, XWidth)
                IN  /\ Meshes' = [Meshes EXCEPT ![section + 1] =
                                     ApplyMeshOp(op, @, data, "section")]
                    /\ delivered' = Bump(delivered, section)
                    /\ writes' = << [slot |-> section, kind |-> op, geometry |-> "section",
                                     worker |-> b.id, data |-> data] >>
                    /\ section_x' = next[1]
                    /\ section_y' = next[2]
                    /\ IF MoreSections(next[2], YWidth)
                       THEN /\ builders' = [builders EXCEPT ![poll_i + 1] =
                                               Build(b, Map, ComponentSize, next[1], next[2])]
                            /\ assigned' = Bump(assigned, next)
                            /\ poll_i' = wrap(poll_i + 1)
                       ELSE /\ builders' = RemoveAt(builders, poll_i + 1)
                            /\ assigned' = assigned
                            /\ poll_i' = 0
           ELSE /\ poll_i' = wrap(poll_i + 1)
                /\ writes' = << >>
                /\ UNCHANGED <<Meshes, delivered, section_x, section_y, builders, assigned>>
    /\ UNCHANGED <<ComponentSize, XWidth, YWidth, Tiling, Border, WorkerThreads, DirtyMesh,
                   Map, UpdateMesh, ComponentBuffer, pc, num_threads_limit, editsLeft>>
    /\ UNCHANGED <<cookVars, probeVars>>

\* The rest of RebuildMesh, once the polling loop has ended.
RebuildMeshEnd ==
    /\ pc = "poll"
    /\ Len(builders) = 0
    /\ LET BorderBuffer == GenerateBorderSection(Map, EmptyData, TRUE)
           op == MeshOp(DirtyMesh)
       IN  IF Border
           THEN /\ Meshes' = [Meshes EXCEPT ![Len(Meshes)] =
                                 ApplyMeshOp(op, @, BorderBuffer, "border")]
                /\ writes' = << [slot |-> Len(Meshes) - 1, kind |-> op,
                                 geometry |-> "border", worker |-> -1,
                                 data |-> BorderBuffer] >>
           ELSE /\ Meshes' = Meshes
                /\ writes' = << >>
    /\ DirtyMesh' = FALSE
    /\ pc' = "idle"
    /\ UNCHANGED <<ComponentSize, XWidth, YWidth, Tiling, Border, WorkerThreads,
                   Map, UpdateMesh, ComponentBuffer, num_threads_limit, builders,
                   section_x, section_y, poll_i, assigned, delivered, editsLeft>>
    /\ UNCHANGED <<cookVars, probeVars>>

(***************************************************************************)
(* Marking sections and ATerrain::Update                                   *)
(***************************************************************************)
\* C++ integer division truncates toward zero.
CDiv(a, b) == IF a >= 0 THEN a \div b ELSE -((-a) \div b)

Marked(flags) == {i \in 1..Len(flags) : flags[i]}

UpdateSection(X, Y) ==
    /\ pc = "idle"
    /\ Y * XWidth + X + 1 \in 1..Len(UpdateMesh)
    /\ UpdateMesh' = [UpdateMesh EXCEPT ![Y * XWidth + X + 1] = TRUE]
    /\ Cardinality(Marked(UpdateMesh')) <= MaxMarks
    /\ writes' = << >>
    /\ UNCHANGED <<ComponentSize, XWidth, YWidth, Tiling, Border, WorkerThreads, DirtyMesh,
                   Map, Meshes, ComponentBuffer, pc, num_threads_limit, builders,
                   section_x, section_y, poll_i, assigned, delivered, editsLeft>>
    /\ UNCHANGED <<cookVars, probeVars>>

\* The component rectangle UpdateRange marks: <<min x, min y, max x, max y>>.
RangeComponents(map, size, MinX, MinY, MaxX, MaxY) ==
    LET polygons == size - 1
        width_x == map.WidthX - 3
        width_y == map.WidthY - 3
        min_x == (IF MinX < 1 THEN 1 ELSE MinX) - 1
        min_y == (IF MinY < 1 THEN 1 ELSE MinY) - 1
        max_x == (IF MaxX > width_x THEN width_x ELSE MaxX) - 1
        max_y == (IF MaxY > width_y THEN width_y ELSE MaxY) - 1
    IN  << CDiv(min_x, polygons), CDiv(min_y, polygons),
           CDiv(max_x, polygons), CDiv(max_y, polygons) >>

RangeMarks(map, size, xw, MinX, MinY, MaxX, MaxY) ==
    LET c == RangeComponents(map, size, MinX, MinY, MaxX, MaxY)
    IN  {y * xw + x : x \in c[1]..c[3], y \in c[2]..c[4]}

UpdateRange(MinX, MinY, MaxX, MaxY) ==
    /\ pc = "idle"
    /\ Explored
    /\ LET marks == RangeMarks(Map, ComponentSize, XWidth, MinX, MinY, MaxX, MaxY)
       IN  /\ \A i \in marks : i + 1 \in 1..Len(UpdateMesh)
           /\ UpdateMesh' = [i \in 1..Len(UpdateMesh) |-> UpdateMesh[i] \/ (i - 1) \in marks]
    /\ Cardinality(Marked(UpdateMesh')) <= MaxMarks
    /\ writes' = << >>
    /\ UNCHANGED <<ComponentSize, XWidth, YWidth, Tiling, Border, WorkerThreads, DirtyMesh,
                   Map, Meshes, ComponentBuffer, pc, num_threads_limit, builders,
                   section_x, section_y, poll_i, assigned, delivered, editsLeft>>
    /\ UNCHANGED <<cookVars, probeVars>>

\* Update visits the sections with x in the outer loop and y in the inner
\* loop; UpdateVisit is the state of the loop before visit k (0-based).
UpdateStart ==
    [Meshes |-> Meshes, UpdateMesh |-> UpdateMesh, ComponentBuffer |-> ComponentBuffer,
     update_border |-> TRUE, writes |-> << >>]

UpdateOne_always(st, x, y) ==
    LET i == y * XWidth + x
        buffer == GenerateMeshSection(Map, ComponentSize, Tiling, x, y, st.ComponentBuffer, FALSE)
    IN  [Meshes |-> [st.Meshes EXCEPT ![i + 1] = UpdateMeshSection(@, buffer, "section")],
         UpdateMesh |-> [st.UpdateMesh EXCEPT ![i + 1] = FALSE],
         ComponentBuffer |-> buffer,
         update_border |-> st.update_border,
         writes |-> Append(st.writes, [slot |-> i, kind |-> "update", geometry |-> "section",
                                       worker |-> -1, data |-> buffer])]

UpdateOne(st, x, y) ==
    LET i == y * XWidth + x
        buffer == GenerateMeshSection(Map, ComponentSize, Tiling, x, y, st.ComponentBuffer, FALSE)
        edge == x = 0 \/ y = 0 \/ x = XWidth - 1 \/ y = YWidth - 1
        BorderBuffer == GenerateBorderSection(Map, EmptyData, TRUE)
        meshes1 == [st.Meshes EXCEPT ![i + 1] = UpdateMeshSection(@, buffer, "section")]
        writes1 == Append(st.writes, [slot |-> i, kind |-> "update", geometry |-> "section",
                                      worker |-> -1, data |-> buffer])
    IN  IF ~st.UpdateMesh[i + 1]
        THEN st
        ELSE IF st.update_border /\ edge
        THEN [Meshes |-> [meshes1 EXCEPT ![Len(meshes1)] =
                             UpdateMeshSection(@, BorderBuffer, "border")],
              UpdateMesh |-> [st.UpdateMesh EXCEPT ![i + 1] = FALSE],
              ComponentBuffer |-> buffer,
              update_border |-> FALSE,
              writes |-> Append(writes1, [slot |-> Len(meshes1) - 1, kind |-> "update",
                                          geometry |-> "border", worker |-> -1,
                                          data |-> BorderBuffer])]
        ELSE [Meshes |-> meshes1,
              UpdateMesh |-> [st.UpdateMesh EXCEPT ![i + 1] = FALSE],
              ComponentBuffer |-> buffer,
              update_border |-> st.update_border,
              writes |-> writes1]

RECURSIVE UpdateVisit(_)
UpdateVisit(k) ==
    IF k = 0 THEN UpdateStart
    ELSE UpdateOne(UpdateVisit(k - 1), (k - 1) \div YWidth, (k - 1) % YWidth)

\* ATerrain::Update (called by Tick).  It reads UpdateMesh[i] and Meshes[i]
\* for every section: the arrays hold an entry for each (the program faults
\* otherwise).
Update ==
    /\ pc = "idle"
    /\ Explored
    /\ Len(UpdateMesh) >= XWidth * YWidth
    /\ LET st == UpdateVisit(XWidth * YWidth)
       IN  /\ Meshes' = st.Meshes
           /\ UpdateMesh' = st.UpdateMesh
           /\ ComponentBuffer' = st.ComponentBuffer
           /\ writes' = st.writes
    /\ UNCHANGED <<ComponentSize, XWidth, YWidth, Tiling, Border, WorkerThreads, DirtyMesh,
                   Map, pc, num_threads_limit, builders, section_x, section_y, poll_i,
                   assigned, delivered, editsLeft>>
    /\ UNCHANGED <<cookVars, probeVars>>

MayEdit_any(where) == TRUE

\* Where the game thread can call into the height map: RebuildMesh polls
\* on the game thread until the last worker is retired.
MayEdit(where) == where = "idle"

\* An editor tool or a generator writes one height (UHeightMap::SetHeight).
SetHeight(X, Y, Height) ==
    /\ MayEdit(pc)
    /\ editsLeft > 0
    /\ X < Map.WidthX /\ Y < Map.WidthY
    /\ Map' = SetHeightMap(Map, X, Y, Height)
    /\ editsLeft' = editsLeft - 1
    /\ writes' = << >>
    /\ UNCHANGED <<ComponentSize, XWidth, YWidth, Tiling, Border, WorkerThreads, DirtyMesh,
                   Meshes, UpdateMesh, ComponentBuffer, pc, num_threads_limit, builders,
                   section_x, section_y, poll_i, assigned, delivered>>
    /\ UNCHANGED <<cookVars, probeVars>>

(***************************************************************************)
(* Initial state: the terrain and the component after construction         *)
(***************************************************************************)
InitTerrain ==
    /\ ComponentSize = DefaultComponentSize
    /\ XWidth = DefaultWidth
    /\ YWidth = DefaultWidth
    /\ Tiling = 1
    /\ Border = TRUE
    /\ WorkerThreads = DefaultWorkerThreads
    /\ DirtyMesh = TRUE
    /\ Map = EmptyMap
    /\ Meshes = << >>
    /\ UpdateMesh = << >>
    /\ ComponentBuffer = EmptyData
    /\ pc = "idle"
    /\ builders = << >>
    /\ section_x = 0
    /\ section_y = 0
    /\ poll_i = 0
    /\ assigned = << >>
    /\ delivered = << >>
    /\ writes = << >>
    /\ editsLeft = MaxEdits

InitCook ==
    /\ BodySetup = 0
    /\ BodySetupQueue = << >>
    /\ AsyncCooking = TRUE
    /\ cooking = {}
    /\ cookedAt = << >>
    /\ nextBody = 1
    /\ requests = 0
    /\ newestSuccess = 0
    /\ lastFinish = << >>

\* No call has been made yet.
NoCall == [op |-> "none"]

NoMesh == [kind |-> "none"]

InitProbe == hm = EmptyMap /\ call = NoCall /\ gen = NoMesh

Init == InitTerrain /\ InitCook /\ InitProbe /\ num_threads_limit = PoolLimit

\* The terrain with a pool limit of 1 or of PoolLimit.
InitPool == InitTerrain /\ InitCook /\ InitProbe /\ num_threads_limit \in {1, PoolLimit}

\* Resize with every input up to n sections, the rejected ones included.
ResizeUpTo(n) ==
    \E s \in 1..MaxComponentSize, x \in 0..n, y \in 0..n :
        /\ x * y <= n
        /\ Resize(s, x, y)

SchedulerStep ==
    \/ \E i \in 1..PoolLimit : WorkerRun(i)
    \/ PollBuilder
    \/ RebuildMeshEnd

(***************************************************************************)
(* The rebuild scheduler on its own                                        *)
(***************************************************************************)
NextSched ==
    \/ ResizeUpTo(MaxSections)
    \/ Rebuild
    \/ Refresh
    \/ SchedulerStep

SpecSched == Init /\ [][NextSched]_vars

\* The game thread keeps running RebuildMesh, and a worker thread that has a
\* section to build runs.
FairSched ==
    /\ WF_vars(PollBuilder \/ RebuildMeshEnd)
    /\ WF_vars(\E i \in 1..PoolLimit : WorkerRun(i))

LiveSched == InitPool /\ [][NextSched]_vars /\ FairSched

(***************************************************************************)
(* The scheduler with the WorkerThreads property edited                    *)
(***************************************************************************)
NextThreads ==
    \/ ResizeUpTo(MaxLifeSections)
    \/ Refresh
    \/ \E n \in 1..PoolLimit : EditWorkerThreads(n)
    \/ SchedulerStep

SpecThreads == Init /\ [][NextThreads]_vars

(***************************************************************************)
(* The scheduler over an edited height map, with a pool limit of 1 or of   *)
(* PoolLimit                                                               *)
(***************************************************************************)
NextData ==
    \/ ResizeUpTo(MaxSections)
    \/ Refresh
    \/ \E x \in 1..MaxEditCoord, y \in 1..MaxEditCoord, h \in 1..MaxHeightValue :
          SetHeight(x, y, h)
    \/ SchedulerStep

SpecData == InitPool /\ [][NextData]_vars

(***************************************************************************)
(* The life of a terrain: resizing, rebuilding, marking and updating       *)
(***************************************************************************)
Next ==
    \/ ResizeUpTo(MaxLifeSections)
    \/ Rebuild
    \/ Refresh
    \/ \E e \in BOOLEAN : EnableBorder(e)
    \/ \E x \in 0..(MaxLifeSections - 1), y \in 0..(MaxLifeSections - 1) : UpdateSection(x, y)
    \/ \E a, b, c, d \in (-1)..MaxRangeCoord : UpdateRange(a, b, c, d)
    \/ Update
    \/ SchedulerStep

Spec == Init /\ [][Next]_vars

(***************************************************************************)
(* UTerrainComponent: collision cooking                                    *)
(***************************************************************************)
\* TArray::Find: the 0-based position of body in the queue, -1 when absent.
Find(queue, body) ==
    IF \E k \in 1..Len(queue) : queue[k] = body
    THEN (CHOOSE k \in 1..Len(queue) : queue[k] = body /\ \A j \in 1..(k - 1) : queue[j] # body) - 1
    ELSE -1

QueueAfterSuccess_keepOlder(queue, location) == RemoveAt(queue, location + 1)

\* The queue FinishCollision leaves when the cook at location succeeded:
\* the requests made after it.
QueueAfterSuccess(queue, location) ==
    [k \in 1..(Len(queue) - (location + 1)) |-> queue[k + location + 1]]

QueueAfterFailure_dropAll(queue, location) == << >>

\* The queue FinishCollision leaves when the cook at location failed.
QueueAfterFailure(queue, location) == RemoveAt(queue, location + 1)

\* UpdateCollision with AsyncCooking set: a new body setup is queued and its
\* cook started; the cooks queued before are asked to abort.
UpdateCollisionAsync ==
    /\ AsyncCooking
    /\ requests < MaxRequests
    /\ requests' = requests + 1
    /\ BodySetupQueue' = Append(BodySetupQueue, nextBody)
    /\ cooking' = cooking \cup {nextBody}
    /\ cookedAt' = cookedAt @@ (nextBody :> requests')
    /\ nextBody' = nextBody + 1
    /\ UNCHANGED <<BodySetup, AsyncCooking, newestSuccess, lastFinish>>
    /\ UNCHANGED <<terrainVars, probeVars>>

\* UpdateCollision with AsyncCooking clear: the queue is emptied and the
\* body setup in effect (created when there is none) is cooked at once.
UpdateCollisionSync ==
    /\ ~AsyncCooking
    /\ requests < MaxRequests
    /\ requests' = requests + 1
    /\ BodySetupQueue' = << >>
    /\ BodySetup' = IF BodySetup = 0 THEN nextBody ELSE BodySetup
    /\ nextBody' = IF BodySetup = 0 THEN nextBody + 1 ELSE nextBody
    /\ cookedAt' = [b \in DOMAIN cookedAt \cup {BodySetup'} |->
                      IF b = BodySetup' THEN requests' ELSE cookedAt[b]]
    /\ newestSuccess' = requests'
    /\ UNCHANGED <<AsyncCooking, cooking, lastFinish>>
    /\ UNCHANGED <<terrainVars, probeVars>>

\* The callback of an asynchronous cook.
FinishCollision(Success, NewBodySetup) ==
    /\ NewBodySetup \in cooking
    /\ cooking' = cooking \ {NewBodySetup}
    /\ lastFinish' = <<NewBodySetup, Success, Find(BodySetupQueue, NewBodySetup)>>
    /\ newestSuccess' = IF Success /\ cookedAt[NewBodySetup] > newestSuccess
                        THEN cookedAt[NewBodySetup] ELSE newestSuccess
    /\ LET location == Find(BodySetupQueue, NewBodySetup)
       IN  IF location >= 0
           THEN IF Success
                THEN /\ BodySetup' = NewBodySetup
                     /\ BodySetupQueue' = QueueAfterSuccess(BodySetupQueue, location)
                ELSE /\ BodySetup' = BodySetup
                     /\ BodySetupQueue' = QueueAfterFailure(BodySetupQueue, location)
           ELSE UNCHANGED <<BodySetup, BodySetupQueue>>
    /\ UNCHANGED <<AsyncCooking, cookedAt, nextBody, requests>>
    /\ UNCHANGED <<terrainVars, probeVars>>

\* UTerrainComponent::GetBodySetup, called by the engine: a component without
\* a body setup gets a new one, which no request has cooked.
GetBodySetup ==
    /\ BodySetup = 0
    /\ BodySetup' = nextBody
    /\ nextBody' = nextBody + 1
    /\ cookedAt' = cookedAt @@ (nextBody :> 0)
    /\ UNCHANGED <<BodySetupQueue, AsyncCooking, cooking, requests, newestSuccess, lastFinish>>
    /\ UNCHANGED <<terrainVars, probeVars>>

\* The terrain copies its UseAsyncCooking property to the component.
SetAsyncCooking(flag) ==
    /\ AsyncCooking' = flag
    /\ UNCHANGED <<BodySetup, BodySetupQueue, cooking, cookedAt, nextBody, requests,
                   newestSuccess, lastFinish>>
    /\ UNCHANGED <<terrainVars, probeVars>>

NextCook ==
    \/ UpdateCollisionAsync
    \/ UpdateCollisionSync
    \/ GetBodySetup
    \/ \E ok \in BOOLEAN, b \in 1..(MaxRequests + 1) : FinishCollision(ok, b)
    \/ \E flag \in BOOLEAN : SetAsyncCooking(flag)

SpecCook == Init /\ [][NextCook]_vars

(***************************************************************************)
(* Properties of the rebuild scheduler                                     *)
(***************************************************************************)
Sections == {<<x, y>> : x \in 0..(XWidth - 1), y \in 0..(YWidth - 1)}

SectionSlots == 0..(XWidth * YWidth - 1)

\* Row-major index of the section a builder holds.
RowMajor(b) == b.component_y * XWidth + b.component_x

\* The polling loop has retired its last worker, or RebuildMesh has returned.
RunOver ==
    \/ pc = "poll" /\ Len(builders) = 0
    \/ pc = "idle" /\ ~DirtyMesh

\* Builder j of the pool was given a section by the step.
GivenSection(j) ==
    /\ ~builders'[j].idle
    /\ \A i \in 1..Len(builders) : builders[i].id = builders'[j].id => builders[i].idle

\* The mesh data of section (x, y) built from the height map as it is now.
BuiltNow(x, y) ==
    GenerateMeshSection(Map, ComponentSize, Tiling, x, y, Allocate(ComponentSize), TRUE)

HoldsData(mesh, data) ==
    /\ mesh.Vertices = data.Vertices
    /\ mesh.UV0 = data.UV0
    /\ mesh.Normals = data.Normals
    /\ mesh.Tangents = data.Tangents

\* C1: in one run of RebuildMesh every section of the grid is given to a
\* worker exactly once, no two workers hold the same section, no coordinate
\* outside the grid is given out, and when the run is over exactly one result
\* has been delivered to the slot of every section.
C1_EachSectionOnce ==
    /\ \A c \in DOMAIN assigned : c \in Sections /\ assigned[c] = 1
    /\ \A s \in DOMAIN delivered : s \in SectionSlots /\ delivered[s] = 1
    /\ pc = "poll" =>
          /\ \A i \in 1..Len(builders) :
                <<builders[i].component_x, builders[i].component_y>> \in DOMAIN assigned
          /\ \A i, j \in 1..Len(builders) :
                i # j => RowMajor(builders[i]) # RowMajor(builders[j])
    /\ RunOver => DOMAIN assigned = Sections /\ DOMAIN delivered = SectionSlots

\* A run over more sections than the pool has workers has returned.
C1_Witness ==
    /\ pc = "idle" /\ ~DirtyMesh
    /\ XWidth * YWidth > PoolLimit
    /\ DOMAIN delivered = SectionSlots
    /\ DOMAIN assigned = Sections

\* C2: once RebuildMesh has started its workers and every worker given a
\* section finishes it, the polling loop retires every worker and RebuildMesh
\* returns.
C2_RebuildReturns == (pc = "poll") ~> (pc = "idle")

\* A run with two rows and more sections than workers has retired its last
\* worker: the cursor has passed the end of the grid.
C2_Witness ==
    /\ pc = "poll" /\ Len(builders) = 0
    /\ YWidth >= 2 /\ XWidth * YWidth > num_threads_limit
    /\ section_y >= YWidth

C5_PoolEquivalence ==
    (pc = "poll" /\ Len(builders) = 0) =>
        \A c \in Sections :
            LET mesh == Meshes[c[2] * XWidth + c[1] + 1]
                data == BuiltNow(c[1], c[2])
            IN  /\ HoldsData(mesh, data)
                /\ mesh.Triangles = data.Triangles

\* A refresh with a single worker over more than PoolLimit sections of an
\* edited height map has retired its worker.
C5_Witness ==
    /\ pc = "poll" /\ Len(builders) = 0 /\ ~DirtyMesh
    /\ num_threads_limit = 1
    /\ XWidth * YWidth > PoolLimit
    /\ editsLeft < MaxEdits
    /\ \E v \in 1..Len(Meshes[1].Vertices) : Meshes[1].Vertices[v][3] # 0
    /\ \A s \in SectionSlots : Meshes[s + 1].lastOp = "update"

\* C6: within one run the sections given to one worker have strictly
\* increasing row-major indices.
C6_WorkerSectionsIncrease ==
    [][pc = "poll" =>
        \A i \in 1..Len(builders), j \in 1..Len(builders') :
            (builders[i].id = builders'[j].id /\ builders[i].idle /\ ~builders'[j].idle)
            => RowMajor(builders'[j]) > RowMajor(builders[i])]_vars

\* Worker 0 was given a second section while another worker is still
\* building its first one.
C6_Witness ==
    /\ pc = "poll"
    /\ \E i, j \in 1..Len(builders) :
          /\ builders[i].id = 0 /\ ~builders[i].idle
          /\ RowMajor(builders[i]) >= PoolLimit
          /\ builders[j].id > 0 /\ ~builders[j].idle
          /\ RowMajor(builders[j]) = builders[j].id

\* C7: RebuildMesh starts min(WorkerThreads, XWidth * YWidth) workers and
\* never has more workers than that.
C7_WorkersStarted ==
    pc = "poll" =>
        /\ Len(builders) <= Min(WorkerThreads, XWidth * YWidth)
        /\ (delivered = << >> => Len(builders) = Min(WorkerThreads, XWidth * YWidth))

(***************************************************************************)
(* Properties of the collision cooking queue                               *)
(***************************************************************************)
\* The request the body setup in effect was cooked for (0: no body setup).
InEffect == IF BodySetup = 0 THEN 0 ELSE cookedAt[BodySetup]

\* C8: the body setup in effect is that of the newest request whose cook has
\* completed successfully, and no step replaces it by the body setup of a
\* request made before the one in effect.
C8_NewestCookStays ==
    /\ InEffect = newestSuccess
    /\ \A k \in 1..Len(BodySetupQueue) : cookedAt[BodySetupQueue[k]] > InEffect

\* A cook succeeded after the cook of a later request had been applied.
C8_Witness ==
    /\ Len(lastFinish) = 3
    /\ lastFinish[2]
    /\ cookedAt[lastFinish[1]] < InEffect
    /\ BodySetup # lastFinish[1]

\* C9: a cook that fails removes its own request from the queue and nothing
\* else: the body setup in effect and the other queued requests stay, and no
\* cook is started.
C9_FailedCook ==
    [][(lastFinish' # lastFinish /\ ~lastFinish'[2]) =>
        /\ BodySetup' = BodySetup
        /\ lastFinish'[3] >= 0 =>
              /\ Len(BodySetupQueue') = Len(BodySetupQueue) - 1
              /\ \A k \in 1..Len(BodySetupQueue') :
                    BodySetupQueue'[k] = BodySetupQueue[IF k <= lastFinish'[3] THEN k ELSE k + 1]
              /\ \A k \in 1..Len(BodySetupQueue') : BodySetupQueue'[k] # lastFinish'[1]
        /\ lastFinish'[3] < 0 => BodySetupQueue' = BodySetupQueue
        /\ cooking' = cooking \ {lastFinish'[1]}
        /\ requests' = requests
        /\ nextBody' = nextBody]_vars

\* The cook of a queued request failed while a body setup was in effect and
\* another request stays queued.
C9_Witness ==
    /\ Len(lastFinish) = 3
    /\ ~lastFinish[2]
    /\ lastFinish[3] >= 0
    /\ BodySetup # 0
    /\ Len(BodySetupQueue) >= 1

(***************************************************************************)
(* Properties of the life of the mesh components                           *)
(***************************************************************************)
\* The index count of a section mesh of the current component width.
SectionIndexCount == (ComponentSize - 1) * (ComponentSize - 1) * 6

\* C10: a section mesh that was never created, or was dropped by a size
\* change, is written with a create; an update goes only to a section mesh
\* created before at the current size; all sections delivered in one run of
\* RebuildMesh get the same kind of write.
C10_CreateBeforeUpdate ==
    [][/\ \A k \in 1..Len(writes') :
             LET w == writes'[k]
             IN  w.slot \in SectionSlots /\ w.geometry = "section" =>
                    /\ w.kind \in {"create", "update"}
                    /\ w.kind = "update" =>
                          /\ w.slot + 1 \in 1..Len(Meshes)
                          /\ Meshes[w.slot + 1].lastOp # "none"
                          /\ Len(Meshes[w.slot + 1].Triangles) = SectionIndexCount
                    /\ pc = "poll" =>
                          \A s \in DOMAIN delivered : Meshes[s + 1].lastOp = w.kind
       /\ (ComponentSize' # ComponentSize \/ XWidth' # XWidth \/ YWidth' # YWidth) =>
             /\ DirtyMesh'
             /\ \A s \in 1..Len(Meshes') : Meshes'[s].lastOp = "none"]_vars

\* A refresh has updated the two section meshes a resize created.
C10_Witness ==
    /\ pc = "idle" /\ ~DirtyMesh
    /\ XWidth = 1 /\ YWidth = 2
    /\ Meshes[1].lastOp = "update" /\ Meshes[2].lastOp = "update"
    /\ Len(Meshes[1].Triangles) = SectionIndexCount

(***************************************************************************)
(* UHeightMap and UMapGenerator used on their own                          *)
(***************************************************************************)
\* A read of MapData[Y * WidthX + X]: the cell at that index when the index
\* is inside the array; a read outside the array is undefined and gives ub.
ReadHeight(map, X, Y, ub) ==
    IF InMapData(map, X, Y) THEN GetHeight(map, X, Y) ELSE ub

BPGetHeight(map, X, Y, ub) ==
    IF X < 0 \/ Y < 0 THEN 0 ELSE ReadHeight(map, X, Y, ub)

\* The generators call SetHeight(x, y, values[x, y]) for every x below
\* WidthX and every y below WidthY.
WriteAll(map, values) ==
    [map EXCEPT !.MapData =
        [k \in 1..Len(map.MapData) |->
            IF \E c \in DOMAIN values : c[2] * map.WidthX + c[1] + 1 = k
            THEN values[CHOOSE c \in DOMAIN values : c[2] * map.WidthX + c[1] + 1 = k]
            ELSE map.MapData[k]]]

\* The cells the generators loop over.
MapCells(map) == (0..(map.WidthX - 1)) \X (0..(map.WidthY - 1))

Flat(map) == WriteAll(map, [c \in MapCells(map) |-> 0])

\* The value a noise field gives at (x, y): noise field p of the fields the
\* model draws from.
NoiseSample(p, x, y) == (x + p * y + p) % (MaxHeightValue + 1)

\* UMapGenerator::Plasma and Perlin: every cell gets its noise sample.
Generate(map, p) == WriteAll(map, [c \in MapCells(map) |-> NoiseSample(p, c[1], c[2])])

CallRecord(op, X, Y, Z, result, fault) ==
    [op |-> op, X |-> X, Y |-> Y, Z |-> Z, result |-> result, fault |-> fault]

CallResize(X, Y, Z) ==
    /\ hm' = HeightMapResize(hm, X, Y, Z)
    /\ call' = CallRecord("Resize", X, Y, Z, 0, FALSE)
    /\ UNCHANGED <<gen, terrainVars, cookVars>>

CallSetHeight(X, Y, Height) ==
    /\ X \in 0..(hm.WidthX - 1)
    /\ Y \in 0..(hm.WidthY - 1)
    /\ hm' = SetHeightMap(hm, X, Y, Height)
    /\ call' = CallRecord("SetHeight", X, Y, Height, 0, FALSE)
    /\ UNCHANGED <<gen, terrainVars, cookVars>>

CallGetHeight(X, Y) ==
    /\ X \in 0..(hm.WidthX - 1)
    /\ Y \in 0..(hm.WidthY - 1)
    /\ call' = CallRecord("GetHeight", X, Y, 0, GetHeight(hm, X, Y), FALSE)
    /\ UNCHANGED <<hm, gen, terrainVars, cookVars>>

\* BPGetHeight with any coordinates.  A read outside MapData either faults
\* (the array's range check) or returns whatever lies there.
CallBPGetHeight(X, Y) ==
    /\ IF X < 0 \/ Y < 0 \/ InMapData(hm, X, Y)
       THEN call' = CallRecord("BPGetHeight", X, Y, 0, BPGetHeight(hm, X, Y, 0), FALSE)
       ELSE \E ub \in 0..MaxHeightValue, fault \in BOOLEAN :
               call' = CallRecord("BPGetHeight", X, Y, 0,
                                  IF fault THEN 0 ELSE BPGetHeight(hm, X, Y, ub), fault)
    /\ UNCHANGED <<hm, gen, terrainVars, cookVars>>

CallFlat ==
    /\ hm' = Flat(hm)
    /\ call' = CallRecord("Flat", 0, 0, 0, 0, FALSE)
    /\ UNCHANGED <<gen, terrainVars, cookVars>>

\* The safety check of Plasma: a Scale below 1 becomes 1.
ClampScale(Scale) == IF Scale < 1 THEN 1 ELSE Scale

\* PlasmaNoise(size, seed), GradientNoise(w, h, seed): the noise field built
\* from a size and a seed, as one of the fields the model draws from.
PlasmaNoise(size, seed) == (size + seed) % (MaxNoise + 1)

\* UMapGenerator::Plasma(Map, Scale).  The seed is not an argument: it is read
\* from the steady clock inside the call, so it is any value.
CallGenerate(Scale) ==
    \E seed \in 0..MaxNoise :
        /\ hm' = Generate(hm, PlasmaNoise(ClampScale(Scale), seed))
        /\ call' = CallRecord("Generate", Scale, 0, 0, 0, FALSE)
        /\ UNCHANGED <<gen, terrainVars, cookVars>>

NextMap ==
    \/ \E X, Y \in (-1)..MaxMapWidth, Z \in 0..1 : X * Y <= MaxMapCells /\ CallResize(X, Y, Z)
    \/ \E X, Y \in 0..(MaxMapWidth - 1), v \in 0..MaxHeightValue : CallSetHeight(X, Y, v)
    \/ \E X, Y \in 0..(MaxMapWidth - 1) : CallGetHeight(X, Y)
    \/ \E X, Y \in (-1)..MaxMapWidth : CallBPGetHeight(X, Y)
    \/ CallFlat
    \/ \E Scale \in 0..MaxScale : CallGenerate(Scale)

SpecMap == Init /\ [][NextMap]_vars

(***************************************************************************)
(* Properties of the height map                                            *)
(***************************************************************************)
\* C11: GetHeight(x, y) called right after SetHeight(x, y, v), with x and y
\* inside the map, returns v.
C11_GetAfterSet ==
    [][(call.op = "SetHeight" /\ call'.op = "GetHeight"
          /\ call'.X = call.X /\ call'.Y = call.Y)
       => call'.result = call.Z]_vars

\* GetHeight has returned a height other than 0 from the last cell of a map
\* that has two rows and two columns.
C11_Witness ==
    /\ call.op = "GetHeight"
    /\ call.result # 0
    /\ hm.WidthX = 2 /\ hm.WidthY = 2
    /\ call.X = 1 /\ call.Y = 1
    /\ \E k \in 1..Len(hm.MapData) : hm.MapData[k] = 0

\* C12: Resize with X or Y zero or negative leaves the widths and every cell
\* of the height map as they were.
C12_ResizeNoOp ==
    [][(call'.op = "Resize" /\ (call'.X <= 0 \/ call'.Y <= 0)) => hm' = hm]_vars

\* Resize with a width of 0 was called on a map that holds a height other
\* than 0.
C12_Witness ==
    /\ call.op = "Resize"
    /\ call.X = 0 /\ call.Y > 0 /\ call.Z > 0
    /\ hm.WidthX > 0
    /\ \E k \in 1..Len(hm.MapData) : hm.MapData[k] # 0

\* C13: after Resize(x, y) with x > 0 and y > 0 the height map has x * y
\* cells and every cell reads 0, whatever it held before.
C13_ResizeZeroes ==
    (call.op = "Resize" /\ call.X > 0 /\ call.Y > 0 /\ call.Z > 0) =>
        /\ Len(hm.MapData) = call.X * call.Y
        /\ \A k \in 1..Len(hm.MapData) : hm.MapData[k] = 0

\* C14: the length of MapData is WidthX * WidthY in every state reached by
\* Resize, SetHeight and the generators.
C14_LengthIsArea == Len(hm.MapData) = hm.WidthX * hm.WidthY

\* A map that was made smaller after a generator filled it.
C14_Witness ==
    /\ call.op = "Resize"
    /\ hm.WidthX = 1 /\ hm.WidthY = 2
    /\ hm.MapData[2] # 0

\* C15: BPGetHeight returns 0 for every coordinate that is negative or not
\* below the width of the map, without reading outside MapData or from
\* another cell.
C15_SafeRead ==
    (call.op = "BPGetHeight"
       /\ (call.X < 0 \/ call.Y < 0 \/ call.X >= hm.WidthX \/ call.Y >= hm.WidthY))
    => (call.result = 0 /\ ~call.fault)

(***************************************************************************)
(* The mesh generators applied to height maps drawn from a bounded set     *)
(***************************************************************************)
\* The overload of GenerateMeshSection that fills FTerrainVertex and index
\* arrays: the same section, with every position raised by 10.
GenerateMeshVertices(map, Size, tiling, X, Y) ==
    [Vertices  |-> [i \in 1..(Size * Size) |->
                        LET v == SectionVertex(map, Size, X, Y, i - 1)
                        IN  <<v[1], v[2], v[3] + 10>>],
     UV0       |-> [i \in 1..(Size * Size) |-> SectionUV(Size, tiling, X, Y, i - 1)],
     Normals   |-> [i \in 1..(Size * Size) |-> SectionNormal(map, Size, X, Y, i - 1)],
     Tangents  |-> [i \in 1..(Size * Size) |-> SectionTangent(map, Size, X, Y, i - 1)],
     Triangles |-> [k \in 1..((Size - 1) * (Size - 1) * 6) |-> SectionTriangle(Size, k - 1)]]

\* UHeightMap::CalculateNormalsAndTangents: heights are multiplied by
\* MaxHeight before the differences are taken.
ScaledHeight(map, x, y) == GetHeight(map, x, y) * map.MaxHeight

MapTangentX(map, x, y) ==
    <<2, 0, ScaledHeight(map, x + 1, y) - ScaledHeight(map, x - 1, y)>>

MapTangentY(map, x, y) ==
    <<0, 2, ScaledHeight(map, x, y - 1) - ScaledHeight(map, x, y + 1)>>

\* The cells the loops visit, and the 0-based positions they write.
InnerCells(map) == (1..(map.WidthX - 2)) \X (1..(map.WidthY - 2))

NormalSlot(map, x, y) == (y - 1) * (map.WidthX - 2) + (x - 1)

TangentSlot(map, x, y) == (y - 1) * (map.WidthY - 2) + (x - 1)

\* The loops write some tangent past the end of Tangents.
TangentOverrun(map) ==
    \E c \in InnerCells(map) :
        TangentSlot(map, c[1], c[2]) >= (map.WidthX - 2) * (map.WidthY - 2)

\* A tangent SetNum has default-constructed and no iteration has written.
DefaultTangent == <<1, 0, 0>>

\* The arrays after the loops, every write inside the arrays applied in loop
\* order (y outside, x inside): a position written twice keeps the later
\* write.
CalculateNormalsAndTangents(map) ==
    LET n == (map.WidthX - 2) * (map.WidthY - 2)
        Later(c, d) == c[2] > d[2] \/ (c[2] = d[2] /\ c[1] >= d[1])
        NormalWriters(k) == {c \in InnerCells(map) : NormalSlot(map, c[1], c[2]) = k}
        TangentWriters(k) == {c \in InnerCells(map) : TangentSlot(map, c[1], c[2]) = k}
        Last(S) == CHOOSE c \in S : \A d \in S : Later(c, d)
    IN  [Normals  |-> [k \in 1..n |->
                          IF NormalWriters(k - 1) = {} THEN <<0, 0, 0>>
                          ELSE LET c == Last(NormalWriters(k - 1))
                               IN  CrossProduct(MapTangentX(map, c[1], c[2]),
                                                MapTangentY(map, c[1], c[2]))],
         Tangents |-> [k \in 1..n |->
                          IF TangentWriters(k - 1) = {} THEN DefaultTangent
                          ELSE LET c == Last(TangentWriters(k - 1))
                               IN  MapTangentX(map, c[1], c[2])]]

\* FTerrainComponentSceneProxy::UpdateMapData on a map section of
\* (width + 2) x (width + 2) heights.
ProxyHeight(section, x, y) == section.MapData[x + y * section.WidthX + 1]

ProxyTangentX(section, x, y) ==
    <<2, 0, ProxyHeight(section, x + 1, y) - ProxyHeight(section, x - 1, y)>>

ProxyTangentY(section, x, y) ==
    <<0, 2, ProxyHeight(section, x, y - 1) - ProxyHeight(section, x, y + 1)>>

UpdateMapData(section, width) ==
    [Vertices  |-> [i \in 1..(width * width) |->
                        LET x == (i - 1) % width
                            y == (i - 1) \div width
                        IN  <<x, y, ProxyHeight(section, x + 1, y + 1)>>],
     Tangents  |-> [i \in 1..(width * width) |->
                        ProxyTangentX(section, ((i - 1) % width) + 1, ((i - 1) \div width) + 1)],
     TangentsY |-> [i \in 1..(width * width) |->
                        ProxyTangentY(section, ((i - 1) % width) + 1, ((i - 1) \div width) + 1)],
     Normals   |-> [i \in 1..(width * width) |->
                        LET x == ((i - 1) % width) + 1
                            y == ((i - 1) \div width) + 1
                        IN  CrossProduct(ProxyTangentX(section, x, y),
                                         ProxyTangentY(section, x, y))]]

\* Entry k (0-based) of the index buffer UTerrainComponent::CreateMeshData
\* writes for a component of vertex width width.
ComponentTriangle(width, k) ==
    LET polygons == width - 1
        q == k \div 6
        x == q % polygons
        y == q \div polygons
        c == k % 6
    IN  CASE c = 0 -> x + (y * width)
          [] c = 1 -> 1 + x + (y + 1) * width
          [] c = 2 -> 1 + x + y * width
          [] c = 3 -> x + (y * width)
          [] c = 4 -> x + (y + 1) * width
          [] OTHER -> 1 + x + (y + 1) * width

CreateMeshData(width) ==
    [Vertices  |-> [i \in 1..(width * width) |->
                        <<(i - 1) % width, (i - 1) \div width, 0>>],
     Triangles |-> [k \in 1..((width - 1) * (width - 1) * 6) |->
                        ComponentTriangle(width, k - 1)]]

\* Section (X, Y) of vertex width Size lies on the map: the map is a whole
\* number of sections wide and high, plus its border of one cell.
SectionFits(map, Size, X, Y) ==
    /\ Size >= 2
    /\ map.WidthX >= 3 /\ map.WidthY >= 3
    /\ (map.WidthX - 3) % (Size - 1) = 0
    /\ (map.WidthY - 3) % (Size - 1) = 0
    /\ X \in 0..(((map.WidthX - 3) \div (Size - 1)) - 1)
    /\ Y \in 0..(((map.WidthY - 3) \div (Size - 1)) - 1)

\* ComponentData::Allocate(Size) on the buffer.
MeshAllocate(Size) ==
    /\ gen' = [kind |-> "buffer", Size |-> Size, Data |-> Allocate(Size)]
    /\ UNCHANGED <<hm, call, terrainVars, cookVars>>

\* GenerateMeshSection(X, Y, Data, CreateTriangles) on the allocated buffer.
MeshGenerate(X, Y, CreateTriangles) ==
    /\ gen.kind \in {"buffer", "section"}
    /\ SectionFits(hm, gen.Size, X, Y)
    /\ gen' = [kind |-> "section", Size |-> gen.Size, X |-> X, Y |-> Y,
                Create |-> CreateTriangles, Map |-> hm,
                Created |-> CreateTriangles \/ (gen.kind = "section" /\ gen.Created),
                Data |-> GenerateMeshSection(hm, gen.Size, Tiling, X, Y, gen.Data,
                                             CreateTriangles)]
    /\ UNCHANGED <<hm, call, terrainVars, cookVars>>

\* GenerateMeshSection(X, Y, Vertices, Indices).
MeshGenerateVertices(Size, X, Y) ==
    /\ SectionFits(hm, Size, X, Y)
    /\ gen' = [kind |-> "vertices", Size |-> Size, X |-> X, Y |-> Y, Map |-> hm,
                Data |-> GenerateMeshVertices(hm, Size, Tiling, X, Y)]
    /\ UNCHANGED <<hm, call, terrainVars, cookVars>>

\* CalculateNormalsAndTangents on hm.  A write past the end of Tangents is
\* undefined: the array's range check stops the program, or the write lands
\* outside the two arrays.
MapNormals ==
    /\ hm.WidthX >= 3 /\ hm.WidthY >= 3
    /\ \/ gen' = [kind |-> "normals", Map |-> hm, Data |-> CalculateNormalsAndTangents(hm)]
       \/ TangentOverrun(hm) /\ gen' = [kind |-> "stopped", Map |-> hm]
    /\ UNCHANGED <<hm, call, terrainVars, cookVars>>

\* UpdateMapData of a scene proxy whose map section is hm.
ProxyUpdate(width) ==
    /\ hm.WidthX = width + 2
    /\ hm.WidthY = width + 2
    /\ gen' = [kind |-> "proxy", Size |-> width, Map |-> hm,
                Data |-> UpdateMapData(hm, width)]
    /\ UNCHANGED <<hm, call, terrainVars, cookVars>>

\* UTerrainComponent::CreateMeshData for a component of vertex width width.
ComponentCreate(width) ==
    /\ gen' = [kind |-> "component", Size |-> width, Data |-> CreateMeshData(width)]
    /\ UNCHANGED <<hm, call, terrainVars, cookVars>>

\* GenerateBorderSection(BorderBuffer, CreateTriangles) on a new, empty
\* BorderBuffer.
MeshBorder(CreateTriangles) ==
    /\ gen' = [kind |-> "border", Create |-> CreateTriangles, Map |-> hm,
                Data |-> GenerateBorderSection(hm, EmptyData, CreateTriangles)]
    /\ UNCHANGED <<hm, call, terrainVars, cookVars>>

\* The height maps the generators are applied to: maps of every size up to
\* MaxMeshWidth with one cell set or filled with noise, and the flat map of
\* 2 x 1 sections of MaxFlatSize vertices.
BlankMap(X, Y, Z) == HeightMapResize(EmptyMap, X, Y, Z)

MeshMaps ==
    UNION {
        {SetHeightMap(BlankMap(X, Y, Z), c[1], c[2], v) :
             c \in (0..(X - 1)) \X (0..(Y - 1)), v \in 0..MaxHeightValue}
        \cup {Generate(BlankMap(X, Y, Z), p) : p \in 0..MaxNoise} :
        X \in 3..MaxMeshWidth, Y \in 3..MaxMeshWidth, Z \in 1..MaxMapScale }
    \cup {Flat(BlankMap(2 * (MaxFlatSize - 1) + 3, (MaxFlatSize - 1) + 3, 1))}

InitMesh ==
    /\ InitTerrain /\ InitCook /\ num_threads_limit = PoolLimit
    /\ hm \in MeshMaps
    /\ call = NoCall
    /\ gen = NoMesh

NextMesh ==
    \/ \E Size \in 2..MaxFlatSize : MeshAllocate(Size)
    \/ \E X \in 0..1, Y \in 0..1, c \in BOOLEAN : MeshGenerate(X, Y, c)
    \/ \E Size \in 2..MaxFlatSize, X \in 0..1, Y \in 0..1 : MeshGenerateVertices(Size, X, Y)
    \/ MapNormals
    \/ \E width \in 1..(MaxMeshWidth - 2) : ProxyUpdate(width)
    \/ \E width \in 2..MaxMeshWidth : ComponentCreate(width)
    \/ \E c \in BOOLEAN : MeshBorder(c)
    \/ CallFlat
    \/ CallGenerate(1)

SpecMesh == InitMesh /\ [][NextMesh]_vars

(***************************************************************************)
(* Properties of the mesh generators                                       *)
(***************************************************************************)
\* The tangent along X at cell (x, y) of map, heights multiplied by scale.
DifferenceX(map, x, y, scale) ==
    <<2, 0, (GetHeight(map, x + 1, y) - GetHeight(map, x - 1, y)) * scale>>

\* The tangent along Y at cell (x, y): the height of the next row minus the
\* height of the previous row when sign is 1, the reverse when sign is -1.
DifferenceY(map, x, y, scale, sign) ==
    <<0, 2, sign * (GetHeight(map, x, y + 1) - GetHeight(map, x, y - 1)) * scale>>

\* Every normal and tangent the latest generator call has stored is made of
\* DifferenceX and DifferenceY with the given sign; the height map's own
\* CalculateNormalsAndTangents with heights multiplied by mapScale.
TangentsAre(sign, mapScale) ==
    /\ gen.kind \in {"section", "vertices"} =>
          \A i \in 1..(gen.Size * gen.Size) :
              LET x == gen.X * (gen.Size - 1) + ((i - 1) % gen.Size) + 1
                  y == gen.Y * (gen.Size - 1) + ((i - 1) \div gen.Size) + 1
              IN  /\ gen.Data.Tangents[i] = DifferenceX(gen.Map, x, y, 1)
                  /\ gen.Data.Normals[i] =
                         CrossProduct(DifferenceX(gen.Map, x, y, 1),
                                      DifferenceY(gen.Map, x, y, 1, sign))
    /\ gen.kind = "proxy" =>
          \A i \in 1..(gen.Size * gen.Size) :
              LET x == ((i - 1) % gen.Size) + 1
                  y == ((i - 1) \div gen.Size) + 1
              IN  /\ gen.Data.Tangents[i] = DifferenceX(gen.Map, x, y, 1)
                  /\ gen.Data.TangentsY[i] = DifferenceY(gen.Map, x, y, 1, sign)
                  /\ gen.Data.Normals[i] =
                         CrossProduct(DifferenceX(gen.Map, x, y, 1),
                                      DifferenceY(gen.Map, x, y, 1, sign))
    /\ gen.kind = "normals" =>
          \A c \in InnerCells(gen.Map) :
              gen.Data.Normals[NormalSlot(gen.Map, c[1], c[2]) + 1] =
                  CrossProduct(DifferenceX(gen.Map, c[1], c[2], mapScale),
                               DifferenceY(gen.Map, c[1], c[2], mapScale, sign))

\* C16 as stated: at the section builder, CalculateNormalsAndTangents and
\* the scene proxy the tangents of cell (x, y) are
\* (2, 0, h(x+1,y) - h(x-1,y)) and (0, 2, h(x,y+1) - h(x,y-1)), h the stored
\* height, and the normal is the cross product of the first with the second.
C16_TangentsAsStated == TangentsAre(1, 1)

\* C16, amended: at the three places the tangents of cell (x, y) are
\* (2, 0, h(x+1,y) - h(x-1,y)) and (0, 2, h(x,y-1) - h(x,y+1)), and the
\* normal is the cross product of the first with the second; h is the stored
\* height, multiplied by MaxHeight in CalculateNormalsAndTangents.
C16_TangentsAsBuilt ==
    gen.kind \in {"section", "vertices", "proxy", "normals"} =>
        TangentsAre(-1, gen.Map.MaxHeight)

\* A section was generated whose heights differ from one row to the next, so
\* that some normal leans along Y.
C16_Witness ==
    /\ gen.kind = "section"
    /\ \E i \in 1..(gen.Size * gen.Size) : gen.Data.Normals[i][2] # 0

\* C17: for a section of vertex width n >= 2 the index buffer has
\* 6 * (n - 1) * (n - 1) entries, every entry is a vertex index from 0 to
\* n * n - 1, and the vertex, UV, normal and tangent buffers have n * n
\* entries each: after Allocate, after GenerateMeshSection and after
\* CreateMeshData.
C17_BufferSizes ==
    gen.kind \in {"buffer", "section", "vertices", "component"} =>
        LET n == gen.Size
        IN  /\ n >= 2
            /\ Len(gen.Data.Triangles) = 6 * (n - 1) * (n - 1)
            /\ \A k \in 1..Len(gen.Data.Triangles) : gen.Data.Triangles[k] \in 0..(n * n - 1)
            /\ Len(gen.Data.Vertices) = n * n
            /\ gen.kind # "component" =>
                  /\ Len(gen.Data.UV0) = n * n
                  /\ Len(gen.Data.Normals) = n * n
                  /\ Len(gen.Data.Tangents) = n * n

\* A section of vertex width 3 was generated with its triangles, and the
\* last vertex is a corner of one of them.
C17_Witness ==
    /\ gen.kind = "section"
    /\ gen.Create
    /\ gen.Size = 3
    /\ \E k \in 1..Len(gen.Data.Triangles) : gen.Data.Triangles[k] = 8

\* Twice the signed area of the triangle a, b, c in the X-Y plane.  Unreal's
\* axes are left-handed (X forward, Y right, Z up): seen from +Z a triangle
\* runs counter-clockwise when this is negative.
Orientation(a, b, c) ==
    (b[1] - a[1]) * (c[2] - a[2]) - (b[2] - a[2]) * (c[1] - a[1])

\* The position of the vertex with 0-based index i.
Position(i) == gen.Data.Vertices[i + 1]

\* The three vertex indices of triangle t (0-based) of the index buffer.
Corners(t) == [j \in 1..3 |-> gen.Data.Triangles[3 * t + j]]

\* C18: the two triangles of every quad (x, y) of a section have the four
\* corners of the quad as their vertices, share the diagonal from (x, y) to
\* (x + 1, y + 1), together have the area of the quad, and both run
\* counter-clockwise seen from +Z.
C18_Winding ==
    ((gen.kind = "section" /\ gen.Create) \/ gen.kind \in {"vertices", "component"}) =>
        \A x \in 0..(gen.Size - 2), y \in 0..(gen.Size - 2) :
            LET n == gen.Size
                q == y * (n - 1) + x
                a == x + y * n
                b == a + 1
                c == a + n + 1
                d == a + n
                t1 == Corners(2 * q)
                t2 == Corners(2 * q + 1)
                o1 == Orientation(Position(t1[1]), Position(t1[2]), Position(t1[3]))
                o2 == Orientation(Position(t2[1]), Position(t2[2]), Position(t2[3]))
                area == Orientation(Position(a), Position(b), Position(d))
            IN  /\ {t1[j] : j \in 1..3} \cup {t2[j] : j \in 1..3} = {a, b, c, d}
                /\ {t1[j] : j \in 1..3} \cap {t2[j] : j \in 1..3} = {a, c}
                /\ o1 < 0 /\ o2 < 0
                /\ area # 0
                /\ -(o1 + o2) = 2 * (IF area < 0 THEN -area ELSE area)

\* The second section of a row was generated with its triangles, for a
\* vertex width of 3 (four quads).
C18_Witness ==
    /\ gen.kind = "section"
    /\ gen.Create
    /\ gen.Size = 3
    /\ gen.X = 1
    /\ Orientation(Position(gen.Data.Triangles[1]), Position(gen.Data.Triangles[2]),
                   Position(gen.Data.Triangles[3])) < 0

\* C19: a call of GenerateMeshSection with CreateTriangles = false leaves
\* the index buffer as it was and writes the vertex of (x, y) at position
\* y * n + x, where a call with CreateTriangles = true writes it; a buffer
\* whose triangles were created before the call still holds them after it.
C19_UpdateKeepsTopology ==
    [][(gen'.kind = "section" /\ ~gen'.Create /\ gen.kind \in {"buffer", "section"}) =>
          LET n == gen'.Size
              created == GenerateMeshSection(gen'.Map, n, Tiling, gen'.X, gen'.Y,
                                             Allocate(n), TRUE)
          IN  /\ gen'.Data.Triangles = gen.Data.Triangles
              /\ \A x \in 0..(n - 1), y \in 0..(n - 1) :
                     /\ gen'.Data.Vertices[y * n + x + 1] = created.Vertices[y * n + x + 1]
                     /\ gen'.Data.Vertices[y * n + x + 1] =
                            SectionVertex(gen'.Map, n, gen'.X, gen'.Y, y * n + x)
              /\ gen'.Created => gen'.Data.Triangles = created.Triangles]_vars

\* A section whose triangles were created earlier was generated again
\* without its triangles, from a map that is not flat.
C19_Witness ==
    /\ gen.kind = "section"
    /\ ~gen.Create
    /\ gen.Created
    /\ gen.Data.Triangles[2] = 1
    /\ \E i \in 1..Len(gen.Data.Vertices) : gen.Data.Vertices[i][3] # 0

\* Every height of map is 0.
IsFlat(map) == \A k \in 1..Len(map.MapData) : map.MapData[k] = 0

\* C20: every vertex of every section generated from a flat height map,
\* the vertices on the edge between two sections and on the outer edge
\* included, gets a normal along +Z: the cross product of the tangents
\* (2, 0, 0) and (0, 2, 0), which the code normalises to (1, 0, 0) and
\* (0, 1, 0), so that the normal is (0, 0, 1).
C20_FlatNormals ==
    (gen.kind \in {"section", "vertices"} /\ IsFlat(gen.Map)) =>
        \A i \in 1..(gen.Size * gen.Size) :
            /\ gen.Data.Tangents[i] = <<2, 0, 0>>
            /\ gen.Data.Normals[i] = <<0, 0, 4>>

\* The second of 2 x 1 sections of MaxFlatSize vertices was generated from
\* a map that UMapGenerator::Flat has filled.
C20_Witness ==
    /\ call.op = "Flat"
    /\ gen.kind = "section"
    /\ gen.Size = MaxFlatSize
    /\ gen.X = 1 /\ gen.Y = 0
    /\ gen.Map = hm
    /\ hm.WidthX = 2 * (MaxFlatSize - 1) + 3
    /\ hm.WidthY = (MaxFlatSize - 1) + 3
    /\ IsFlat(hm)

(***************************************************************************)
(* Properties of the border generator                                      *)
(***************************************************************************)
\* The vertices (0-based positions in the border's vertex buffer) emitted
\* for a side: the border gives every vertex the outward normal of its side.
EdgeVertices(side) ==
    {i \in 0..(Len(gen.Data.Vertices) - 1) : gen.Data.Normals[i + 1] = BorderNormal(side)}

\* The triangles (0-based) with a corner among the vertices of a side.
EdgeTriangles(side) ==
    {t \in 0..((Len(gen.Data.Triangles) \div 3) - 1) :
        \E j \in 1..3 : gen.Data.Triangles[3 * t + j] \in EdgeVertices(side)}

\* C21: for each of the four edges, of length L = the width of the map along
\* it without the two border cells, the border has 2 * L vertices and
\* 2 * (L - 1) triangles, and the three corners of every triangle are
\* vertices of one edge.
C21_BorderCounts ==
    gen.kind = "border" =>
        /\ Len(gen.Data.Triangles) % 3 = 0
        /\ \A side \in 1..4 :
              LET L == BorderEdgeLength(gen.Map, side)
              IN  /\ Cardinality(EdgeVertices(side)) = 2 * L
                  /\ gen.Create => Cardinality(EdgeTriangles(side)) = 2 * (L - 1)
                  /\ \A t \in EdgeTriangles(side), j \in 1..3 :
                         gen.Data.Triangles[3 * t + j] \in EdgeVertices(side)
        /\ ~gen.Create => gen.Data.Triangles = << >>

\* The border of a map that is wider than high was generated with its
\* triangles.
C21_Witness ==
    /\ gen.kind = "border"
    /\ gen.Create
    /\ gen.Map.WidthX = 5 /\ gen.Map.WidthY = 4
    /\ Cardinality(EdgeTriangles(3)) = 4
    /\ Cardinality(EdgeTriangles(2)) = 2

(***************************************************************************)
(* UpdateRange applied to terrains of bounded size                         *)
(***************************************************************************)
\* UpdateRange on a terrain of xw x yw sections of vertex width size whose
\* flags are all false: the flags after the call, and whether the loop wrote
\* outside the flag array.
CallUpdateRange(size, MinX, MinY, MaxX, MaxY) ==
    /\ SectionFits(hm, size, 0, 0)
    /\ LET xw == (hm.WidthX - 3) \div (size - 1)
           yw == (hm.WidthY - 3) \div (size - 1)
           marks == RangeMarks(hm, size, xw, MinX, MinY, MaxX, MaxY)
       IN  call' = [op |-> "UpdateRange", Size |-> size, XWidth |-> xw, YWidth |-> yw,
                    Min |-> <<MinX, MinY>>, Max |-> <<MaxX, MaxY>>,
                    result |-> [i \in 1..(xw * yw) |-> (i - 1) \in marks],
                    fault |-> \E i \in marks : i \notin 0..(xw * yw - 1)]
    /\ UNCHANGED <<hm, gen, terrainVars, cookVars>>

\* The height maps RebuildHeightmap makes for grids of up to MaxRangeGrid
\* sections a side.
RangeMaps ==
    {BlankMap(gx * (n - 1) + 3, gy * (n - 1) + 3, 1) :
        gx \in 1..MaxRangeGrid, gy \in 1..MaxRangeGrid, n \in 2..MaxRangeSize}

InitRange ==
    /\ InitTerrain /\ InitCook /\ num_threads_limit = PoolLimit
    /\ hm \in RangeMaps
    /\ call = NoCall
    /\ gen = NoMesh

\* One call is made on each terrain drawn.
NextRange ==
    /\ call = NoCall
    /\ \E size \in 2..MaxRangeSize :
          \E MinX, MaxX \in (-1)..(hm.WidthX + 1), MinY, MaxY \in (-1)..(hm.WidthY + 1) :
              CallUpdateRange(size, MinX, MinY, MaxX, MaxY)

SpecRange == InitRange /\ [][NextRange]_vars

\* Section (X, Y) has a vertex whose height-map cell lies in the range of the
\* latest UpdateRange call.
OwnsVertexInRange(X, Y) ==
    \E x \in 0..(call.Size - 1), y \in 0..(call.Size - 1) :
        /\ X * (call.Size - 1) + x + 1 \in call.Min[1]..call.Max[1]
        /\ Y * (call.Size - 1) + y + 1 \in call.Min[2]..call.Max[2]

\* C22: after UpdateRange(Range) the flag of every section that has a vertex
\* whose height-map cell lies inside Range is set, both sections of a shared
\* edge vertex included, for ranges inside, partly outside and wholly
\* outside the map.
C22_RangeMarksOverlap ==
    call.op = "UpdateRange" =>
        /\ ~call.fault
        /\ \A X \in 0..(call.XWidth - 1), Y \in 0..(call.YWidth - 1) :
               OwnsVertexInRange(X, Y) => call.result[Y * call.XWidth + X + 1]

(***************************************************************************)
(* Properties of ATerrain::Update                                          *)
(***************************************************************************)
\* The positions in writes' of the section writes with 0-based slot i.
SectionWritesTo(i) ==
    {k \in 1..Len(writes') : writes'[k].geometry = "section" /\ writes'[k].slot = i}

\* C23: Update regenerates every section whose flag is set exactly once,
\* from the height map as it is, regenerates no section whose flag is not
\* set, and leaves every section flag false.
C23_UpdateExactlyMarked ==
    [][(pc = "idle" /\ pc' = "idle") =>
          /\ Marked(UpdateMesh) = {} => (Meshes' = Meshes /\ writes' = << >>)
          /\ writes' # << >> =>
                /\ \A i \in SectionSlots :
                      IF UpdateMesh[i + 1]
                      THEN /\ Cardinality(SectionWritesTo(i)) = 1
                           /\ \A k \in SectionWritesTo(i) :
                                 /\ writes'[k].kind = "update"
                                 /\ HoldsData(writes'[k].data, BuiltNow(i % XWidth, i \div XWidth))
                      ELSE SectionWritesTo(i) = {}
                /\ \A i \in SectionSlots : ~UpdateMesh'[i + 1]]_vars

\* Update has regenerated the one marked section of a terrain of two.
C23_Witness ==
    /\ pc = "idle"
    /\ XWidth * YWidth = 2
    /\ Len(writes) >= 1
    /\ writes[1].worker = -1 /\ writes[1].geometry = "section" /\ writes[1].kind = "update"
    /\ \A k \in 2..Len(writes) : writes[k].geometry # "section"
    /\ \A i \in SectionSlots : ~UpdateMesh[i + 1]

\* C27: border geometry is written only to the mesh slot created after the
\* XWidth * YWidth section slots, and only while the border is enabled.
C27_BorderSlotOnly ==
    [][\A k \in 1..Len(writes') :
          writes'[k].geometry = "border" =>
              /\ Border'
              /\ writes'[k].slot = XWidth' * YWidth'
              /\ Len(Meshes') = XWidth' * YWidth' + 1]_vars

\* C24: two generations with the same parameters on the same field give the
\* same heights in every cell (the output is a function of the arguments of
\* the entry point, the seed being one of them).
C24_SameArgumentsSameHeights ==
    [][(call.op = "Generate" /\ call'.op = "Generate" /\ call'.X = call.X)
          => hm' = hm]_vars

\* C25: CalculateNormalsAndTangents on any map of at least 3 x 3, square or
\* not, runs to its end; every interior cell (x, y) writes its normal and its
\* tangent at the same index (y-1)*(WidthX-2) + (x-1), inside the arrays, and
\* no two cells write the same tangent entry.
C25_OneSlotPerCell ==
    gen.kind \in {"normals", "stopped"} =>
        /\ gen.kind = "normals"
        /\ Len(gen.Data.Normals) = (gen.Map.WidthX - 2) * (gen.Map.WidthY - 2)
        /\ Len(gen.Data.Tangents) = (gen.Map.WidthX - 2) * (gen.Map.WidthY - 2)
        /\ \A c \in InnerCells(gen.Map) :
              /\ TangentSlot(gen.Map, c[1], c[2]) = NormalSlot(gen.Map, c[1], c[2])
              /\ TangentSlot(gen.Map, c[1], c[2]) < Len(gen.Data.Tangents)
        /\ \A c, d \in InnerCells(gen.Map) :
              c # d => TangentSlot(gen.Map, c[1], c[2]) # TangentSlot(gen.Map, d[1], d[2])

\* The data GenerateMeshSection gives section (X, Y) of the map gen holds.
NeighbourSection(X, Y) ==
    GenerateMeshSection(gen.Map, gen.Size, Tiling, X, Y, Allocate(gen.Size), FALSE)

\* Vertex i of data a and vertex j of data b (0-based) agree in position,
\* height, UV, normal and tangent.
SameVertex(a, i, b, j) ==
    /\ a.Vertices[i + 1] = b.Vertices[j + 1]
    /\ a.UV0[i + 1] = b.UV0[j + 1]
    /\ a.Normals[i + 1] = b.Normals[j + 1]
    /\ a.Tangents[i + 1] = b.Tangents[j + 1]

\* C26: a section and its neighbour towards +X or +Y generate every vertex of
\* their shared edge with the same position, height, UV, normal and tangent.
C26_NoSeam ==
    gen.kind = "section" =>
        LET S == gen.Size
        IN  /\ SectionFits(gen.Map, S, gen.X + 1, gen.Y) =>
                  \A y \in 0..(S - 1) :
                      SameVertex(gen.Data, y * S + (S - 1),
                                 NeighbourSection(gen.X + 1, gen.Y), y * S)
            /\ SectionFits(gen.Map, S, gen.X, gen.Y + 1) =>
                  \A x \in 0..(S - 1) :
                      SameVertex(gen.Data, (S - 1) * S + x,
                                 NeighbourSection(gen.X, gen.Y + 1), x)

\* A section with a neighbour towards +X whose shared edge is not level.
C26_Witness ==
    /\ gen.kind = "section"
    /\ SectionFits(gen.Map, gen.Size, gen.X + 1, gen.Y)
    /\ \E y \in 0..(gen.Size - 1) : gen.Data.Vertices[y * gen.Size + gen.Size][3] # 0
    /\ \E y \in 0..(gen.Size - 1) : gen.Data.Normals[y * gen.Size + gen.Size] # <<0, 0, 4>>

(***************************************************************************)
(* The height-map cells a section build reads                              *)
(***************************************************************************)
\* The cells GenerateMeshSection(X, Y, ...) reads: the height of every vertex
\* and its four neighbours.
SectionReads(Size, X, Y) ==
    LET polygons == Size - 1
        heightmap_offset_x == X * polygons
        heightmap_offset_y == Y * polygons
    IN  UNION { LET map_offset_x == heightmap_offset_x + v[1] + 1
                    map_offset_y == heightmap_offset_y + v[2] + 1
                IN  { <<map_offset_x, map_offset_y>>,
                      <<map_offset_x - 1, map_offset_y>>,
                      <<map_offset_x + 1, map_offset_y>>,
                      <<map_offset_x, map_offset_y - 1>>,
                      <<map_offset_x, map_offset_y + 1>> } :
                v \in (0..(Size - 1)) \X (0..(Size - 1)) }

\* The cells copied into the section view of section (X, Y): a window of
\* width + 2 cells a side whose corner is (X * polygons, Y * polygons).
WindowReads(width, X, Y) ==
    LET polygons == width - 1
    IN  ((X * polygons)..(X * polygons + width + 1))
            \X ((Y * polygons)..(Y * polygons + width + 1))

\* The smallest grid width whose height map no longer fits 16 bits at the
\* default component size.
WrapWidth == (U16 \div (DefaultComponentSize - 1)) + 1

\* The terrains whose rebuild is looked at: <<ComponentSize, XWidth, YWidth>>.
ReadTerrains ==
    ((2..MaxReadSize) \X (1..MaxReadWidth) \X (1..MaxReadWidth))
        \cup {<<DefaultComponentSize, WrapWidth, 1>>}

\* A terrain just rebuilt: hm is its height map.
InitReads ==
    /\ InitTerrain /\ InitCook /\ num_threads_limit = PoolLimit
    /\ \E t \in ReadTerrains :
          /\ hm = RebuildHeightmap(EmptyMap, t[1], t[2], t[3])
          /\ call = [op |-> "Rebuild", Size |-> t[1], XWidth |-> t[2], YWidth |-> t[3]]
    /\ gen = NoMesh

BuildSectionReads(X, Y) ==
    /\ call.op = "Rebuild"
    /\ X < call.XWidth /\ Y < call.YWidth
    /\ gen' = [kind |-> "reads", X |-> X, Y |-> Y, Reads |-> SectionReads(call.Size, X, Y)]
    /\ UNCHANGED <<hm, call, terrainVars, cookVars>>

BuildSectionWindow(X, Y) ==
    /\ call.op = "Rebuild"
    /\ X < call.XWidth /\ Y < call.YWidth
    /\ gen' = [kind |-> "window", X |-> X, Y |-> Y, Reads |-> WindowReads(call.Size, X, Y)]
    /\ UNCHANGED <<hm, call, terrainVars, cookVars>>

NextReads ==
    \/ \E X, Y \in 0..MaxReadSection : BuildSectionReads(X, Y)
    \/ \E X, Y \in 0..MaxReadSection : BuildSectionWindow(X, Y)

SpecReads == InitReads /\ [][NextReads]_vars

\* C28: after a rebuild with ComponentSize >= 2, XWidth >= 1 and YWidth >= 1,
\* every cell read while building a section of the grid, and every cell of
\* the window copied for its section view, lies inside the height map.
C28_ReadsInsideMap ==
    gen.kind \in {"reads", "window"} =>
        \A c \in gen.Reads : c[1] \in 0..(hm.WidthX - 1) /\ c[2] \in 0..(hm.WidthY - 1)

(***************************************************************************)
(* The UVs of a terrain component's scene proxy                            *)
(***************************************************************************)
GetTerrainComponentWidth(Size) == 2 ^ Size + 1

\* FTerrainComponentSceneProxy::UpdateUVData: the UV of vertex y * width + x.
UpdateUVData(Size, XOffset, YOffset, tiling) ==
    LET width == GetTerrainComponentWidth(Size)
    IN  [i \in 1..(width * width) |->
            << (XOffset + ((i - 1) % width)) * tiling,
               (YOffset + ((i - 1) \div width)) * tiling >>]

\* The UVs a new scene proxy of the component fills in: its constructor hands
\* Initialize the component's offsets multiplied by the polygons of a side.
ProxyUVs(Size, XOffset, YOffset, tiling) ==
    LET width == GetTerrainComponentWidth(Size) - 1
    IN  UpdateUVData(Size, XOffset * width, YOffset * width, tiling)

\* UTerrainComponent::Initialize followed by the creation of the scene proxy.
ComponentInitialize(Size, X, Y, tiling) ==
    /\ gen' = [kind |-> "component", Size |-> Size, XOffset |-> X, YOffset |-> Y,
                Tiling |-> tiling, UV |-> ProxyUVs(Size, X, Y, tiling)]
    /\ UNCHANGED <<hm, call, terrainVars, cookVars>>

\* UTerrainComponent::SetTiling: the proxy's UpdateUVs gets XOffset and
\* YOffset as they are.
ComponentSetTiling(NewTiling) ==
    /\ gen.kind = "component"
    /\ gen' = [gen EXCEPT !.Tiling = NewTiling,
                           !.UV = UpdateUVData(gen.Size, gen.XOffset, gen.YOffset, NewTiling)]
    /\ UNCHANGED <<hm, call, terrainVars, cookVars>>

\* MarkRenderStateDirty: the scene proxy is destroyed and created anew.
ComponentRecreateProxy ==
    /\ gen.kind = "component"
    /\ gen' = [gen EXCEPT !.UV = ProxyUVs(gen.Size, gen.XOffset, gen.YOffset, gen.Tiling)]
    /\ UNCHANGED <<hm, call, terrainVars, cookVars>>

InitProxy ==
    /\ InitTerrain /\ InitCook /\ num_threads_limit = PoolLimit
    /\ hm = EmptyMap
    /\ call = NoCall
    /\ gen = NoMesh

NextProxy ==
    \/ \E Size \in 2..MaxProxySize, X, Y \in 0..MaxProxyOffset, t \in 1..MaxTiling :
          ComponentInitialize(Size, X, Y, t)
    \/ \E t \in 1..MaxTiling : ComponentSetTiling(t)
    \/ ComponentRecreateProxy

SpecProxy == InitProxy /\ [][NextProxy]_vars

\* C29: the UVs the scene proxy of a component holds, after SetTiling(t) as
\* after anything else, are the UVs a freshly created proxy of that component
\* computes with the component's tiling.
C29_TilingMatchesFreshProxy ==
    gen.kind = "component" =>
        gen.UV = ProxyUVs(gen.Size, gen.XOffset, gen.YOffset, gen.Tiling)

(***************************************************************************)
(* The life of a terrain built from terrain components                     *)
(*                                                                         *)
(* The terrain whose sections are UTerrainComponents: Meshes holds its     *)
(* Components array, gen whether the actor has begun play, and call what   *)
(* the last Update did.                                                    *)
(***************************************************************************)
playRest == <<Tiling, Border, WorkerThreads, ComponentBuffer, pc, num_threads_limit,
              builders, section_x, section_y, poll_i, assigned, delivered, writes,
              editsLeft>>

Actor(HasBegunPlay) == [kind |-> "actor", HasBegunPlay |-> HasBegunPlay]

NewComponent(x, y) == [XOffset |-> x, YOffset |-> y]

\* The indices y * XWidth + x of the grid that array lacks.
MissingSlots(array) ==
    {i \in 0..(XWidth * YWidth - 1) : i >= Len(array)}

\* RebuildMesh of the component terrain, run to its end.
ComponentRebuildMesh(xw, yw, dirty) ==
    /\ Meshes' = IF dirty
                  THEN [k \in 1..(xw * yw) |-> NewComponent((k - 1) % xw, (k - 1) \div xw)]
                  ELSE Meshes
    /\ UpdateMesh' = IF dirty THEN [k \in 1..(xw * yw) |-> FALSE] ELSE UpdateMesh
    /\ DirtyMesh' = FALSE

\* OnConstruction: RebuildProxies hands every component a new map section, or
\* returns at once when components are missing.
OnConstruction ==
    /\ call' = [op |-> "OnConstruction",
                 skipped |-> Len(Meshes) < XWidth * YWidth]
    /\ UNCHANGED <<ComponentSize, XWidth, YWidth, DirtyMesh, Map, Meshes, UpdateMesh,
                   playRest, cookVars, hm, gen>>

UpdateAll ==
    /\ UpdateMesh' = [k \in 1..Len(UpdateMesh) |-> TRUE]
    /\ call' = [op |-> "UpdateAll"]
    /\ UNCHANGED <<ComponentSize, XWidth, YWidth, DirtyMesh, Map, Meshes,
                   playRest, cookVars, hm, gen>>

BeginPlay ==
    /\ ~gen.HasBegunPlay
    /\ UpdateMesh' = [k \in 1..Len(UpdateMesh) |-> TRUE]
    /\ gen' = Actor(TRUE)
    /\ call' = [op |-> "BeginPlay"]
    /\ UNCHANGED <<ComponentSize, XWidth, YWidth, DirtyMesh, Map, Meshes,
                   playRest, cookVars, hm>>

\* Tick: Update walks every x < XWidth, y < YWidth and reads
\* UpdateMesh[y * XWidth + x] and Components[y * XWidth + x].  With an entry
\* missing the read is outside the array: the range check stops the program,
\* or the loop goes on with whatever it read.
Tick ==
    /\ gen.HasBegunPlay
    /\ LET missing == MissingSlots(UpdateMesh) \cup MissingSlots(Meshes)
       IN  IF missing = {}
           THEN /\ UpdateMesh' = [k \in 1..Len(UpdateMesh) |->
                                     IF k <= XWidth * YWidth THEN FALSE ELSE UpdateMesh[k]]
                /\ call' = [op |-> "Update", missing |-> {}, fault |-> FALSE]
           ELSE /\ UpdateMesh' = [k \in 1..Len(UpdateMesh) |->
                                     IF k <= XWidth * YWidth THEN FALSE ELSE UpdateMesh[k]]
                /\ \E fault \in BOOLEAN :
                      call' = [op |-> "Update", missing |-> missing, fault |-> fault]
    /\ UNCHANGED <<ComponentSize, XWidth, YWidth, DirtyMesh, Map, Meshes,
                   playRest, cookVars, hm, gen>>

\* UpdateSection for a section that has a flag; a call for a section without
\* one writes outside the array and is not followed further.
ComponentUpdateSection(X, Y) ==
    /\ X < XWidth /\ Y < YWidth
    /\ Y * XWidth + X < Len(UpdateMesh)
    /\ UpdateMesh' = [UpdateMesh EXCEPT ![Y * XWidth + X + 1] = TRUE]
    /\ call' = [op |-> "UpdateSection"]
    /\ UNCHANGED <<ComponentSize, XWidth, YWidth, DirtyMesh, Map, Meshes,
                   playRest, cookVars, hm, gen>>

ComponentResize(SizeOfComponents, ComponentWidthX, ComponentWidthY) ==
    /\ IF SizeOfComponents <= 1 \/ ComponentWidthX < 1 \/ ComponentWidthY < 1
       THEN UNCHANGED <<ComponentSize, XWidth, YWidth, DirtyMesh, Map, Meshes, UpdateMesh>>
       ELSE /\ ComponentSize' = SizeOfComponents
            /\ XWidth' = ComponentWidthX
            /\ YWidth' = ComponentWidthY
            /\ Map' = RebuildHeightmap(Map, GetTerrainComponentWidth(SizeOfComponents),
                                       ComponentWidthX, ComponentWidthY)
            /\ ComponentRebuildMesh(ComponentWidthX, ComponentWidthY, TRUE)
    /\ call' = [op |-> "Resize"]
    /\ UNCHANGED <<playRest, cookVars, hm, gen>>

ComponentRebuild ==
    /\ Map' = RebuildHeightmap(Map, GetTerrainComponentWidth(ComponentSize), XWidth, YWidth)
    /\ ComponentRebuildMesh(XWidth, YWidth, TRUE)
    /\ call' = [op |-> "Rebuild"]
    /\ UNCHANGED <<ComponentSize, XWidth, YWidth, playRest, cookVars, hm, gen>>

ComponentRefresh ==
    /\ ComponentRebuildMesh(XWidth, YWidth, DirtyMesh)
    /\ call' = [op |-> "Refresh"]
    /\ UNCHANGED <<ComponentSize, XWidth, YWidth, Map, playRest, cookVars, hm, gen>>

InitPlay ==
    /\ InitCook /\ num_threads_limit = PoolLimit
    /\ ComponentSize = ProxyComponentSize
    /\ XWidth = DefaultWidth /\ YWidth = DefaultWidth
    /\ DirtyMesh = TRUE
    /\ Map = EmptyMap
    /\ Meshes = << >> /\ UpdateMesh = << >>
    /\ Tiling = 1 /\ Border = TRUE /\ WorkerThreads = DefaultWorkerThreads
    /\ ComponentBuffer = EmptyData /\ pc = "idle" /\ builders = << >>
    /\ section_x = 0 /\ section_y = 0 /\ poll_i = 0
    /\ assigned = << >> /\ delivered = << >> /\ writes = << >>
    /\ editsLeft = MaxEdits
    /\ hm = EmptyMap
    /\ call = NoCall
    /\ gen = Actor(FALSE)

NextPlay ==
    \/ OnConstruction
    \/ BeginPlay
    \/ Tick
    \/ UpdateAll
    \/ \E X, Y \in 0..(MaxPlayWidth - 1) : ComponentUpdateSection(X, Y)
    \/ \E s \in 1..MaxPlaySize, x, y \in 0..MaxPlayWidth : ComponentResize(s, x, y)
    \/ ComponentRebuild
    \/ ComponentRefresh

SpecPlay == InitPlay /\ [][NextPlay]_vars

\* C30: whenever Update runs, the flag array and the component array hold an
\* entry for every index y * XWidth + x of the grid, in every state reached
\* through construction, BeginPlay, Tick, Resize, Rebuild, Refresh and the
\* marking calls.
C30_UpdateFindsEverySlot ==
    call.op = "Update" => call.missing = {}

====
